---- MODULE Spec2Model ----
(***************************************************************************)
(* Model of the parallel execution engine of ande-reth                     *)
(* (crates/evolve/src/parallel/executor.rs): the multi-version memory, the *)
(* per-transaction routine, the dependency analyzer, the scheduler and the *)
(* worker loop of ParallelExecutor::execute_transactions.                  *)
(*                                                                         *)
(* Three specifications share the scheduler's code:                        *)
(*   Spec       the parallel driver: execute_transactions with its scoped  *)
(*              worker threads, one step per lock acquisition;             *)
(*   SchedSpec  the scheduler's public methods called by one thread, as    *)
(*              the unit tests of executor.rs call them;                   *)
(*   DetectSpec finish_validation called on results stored beforehand.     *)
(* FairSpec is Spec with weak fairness on every worker.                    *)
(* MvSpec calls the methods of the multi-version memory alone, for the     *)
(* one of executor.rs and for the one of parallel/mv_memory.rs.            *)
(* ExecSpec calls the per-transaction routine once on one transaction,     *)
(* DecideSpec the choice between the parallel and the sequential path.     *)
(* PrecompileSpec is the precompile provider of                            *)
(* evm_config/ande_precompile_provider.rs: set_spec and run on a journal.  *)
(* BuildSpec is one build_payload of the payload builder of                *)
(* node/src/builder.rs, FinishSpec the threads of a run calling next_task  *)
(* and finish_execution on one scheduler.                                  *)
(***************************************************************************)
EXTENDS Integers, Sequences, FiniteSets, TLC

(***************************************************************************)
(* Bounds of the model.                                                    *)
(***************************************************************************)
\* most entries a test records in the lists of one multi-version memory
MaxOps == 2
\* longest block the driver is given
MaxTx == 2
\* number of worker threads (config.concurrency_level)
NumWorkers == 2
\* highest incarnation a stored result may carry in SchedSpec
MaxInc == 1
\* longest queue SchedSpec lets a caller build up
MaxQueue == 1
\* signed 128-bit maximum, scaled to the model's integers
I128_MAX == 1000000
\* unsigned 256-bit maximum, scaled to the model's integers
U256_MAX == 4000000

(***************************************************************************)
(* Program constants and configuration.                                    *)
(***************************************************************************)
ANDE_PRECOMPILE_ADDRESS == "0xfd"

\* config.max_retries
max_retries == 2
\* config.min_transactions_for_parallel
min_transactions_for_parallel == 2

Configs ==
  { [enable_lazy_updates |-> l, force_sequential |-> FALSE,
     max_retries |-> max_retries,
     min_transactions_for_parallel |-> min_transactions_for_parallel,
     concurrency_level |-> NumWorkers] : l \in BOOLEAN }

(***************************************************************************)
(* Generic helpers.                                                        *)
(***************************************************************************)
Min(a, b) == IF a <= b THEN a ELSE b

Contains(s, x) == \E i \in 1..Len(s) : s[i] = x

\* Option<T>: <<>> is None, <<x>> is Some(x)
None == << >>
Some(x) == << x >>
IsSome(o) == Len(o) = 1

\* U256::saturating_add / saturating_mul
SatAdd(a, b) == Min(a + b, U256_MAX)
SatMul(a, b) == Min(a * b, U256_MAX)

\* x.try_into().unwrap_or(i128::MAX) for an unsigned x
TryIntoI128(x) == IF x <= I128_MAX THEN x ELSE I128_MAX

(***************************************************************************)
(* Transactions.  signer = "none" stands for a signature from which no     *)
(* signer can be recovered; to = "create" for a contract creation.         *)
(***************************************************************************)
NoSigner == "none"
Create == "create"

Tx(s, t, v, g) ==
  [signer |-> s, to |-> t, value |-> v, gas_limit |-> g,
   max_fee_per_gas |-> 1, input |-> << >>, access_list |-> << >>]

TxKinds ==
  { Tx("A", "C", 1, 21000),
    Tx("B", ANDE_PRECOMPILE_ADDRESS, 2, 21000),
    Tx("A", ANDE_PRECOMPILE_ADDRESS, 1, 21000),
    Tx("C", "A", 0, 20000),
    Tx(NoSigner, "C", 1, 21000) }

RECURSIVE SeqsOfLen(_, _)
SeqsOfLen(S, n) ==
  IF n = 0 THEN { << >> }
  ELSE { Append(s, x) : s \in SeqsOfLen(S, n - 1), x \in S }

Blocks == UNION { SeqsOfLen(TxKinds, n) : n \in 1..MaxTx }

\* the transaction at (0-based) index i of a block
TxAt(block, i) == block[i + 1]

(***************************************************************************)
(* ParallelExecutor::calculate_intrinsic_gas                               *)
(***************************************************************************)
RECURSIVE DataGas(_)
DataGas(data) ==
  IF data = << >> THEN 0
  ELSE (IF Head(data) = 0 THEN 4 ELSE 16) + DataGas(Tail(data))

RECURSIVE AccessListGas(_)
AccessListGas(al) ==
  IF al = << >> THEN 0
  ELSE 2400 + 1900 * Head(al) + AccessListGas(Tail(al))

calculate_intrinsic_gas(tx) ==
  21000 + DataGas(tx.input)
        + (IF tx.to = Create THEN 32000 ELSE 0)
        + AccessListGas(tx.access_list)

is_ande_precompile_call(address) == address = ANDE_PRECOMPILE_ADDRESS

(***************************************************************************)
(* MvMemory                                                                *)
(***************************************************************************)
EmptyLazyAccount ==
  [base_balance |-> 0, base_nonce |-> 0, balance_additions |-> << >>,
   balance_subtractions |-> << >>, nonce_increments |-> << >>]

\* MvMemory::new : lazy_accounts is an empty map
MvMemoryNew == [a \in {} |-> EmptyLazyAccount]

\* lazy_accounts.entry(address).or_insert_with(..)
LazyEntry(mv, address) ==
  IF address \in DOMAIN mv THEN mv[address] ELSE EmptyLazyAccount

add_lazy_balance_addition(mv, address, amount, tx_idx) ==
  [a \in DOMAIN mv \cup {address} |->
     IF a = address
     THEN [LazyEntry(mv, address) EXCEPT
             !.balance_additions = Append(@, <<tx_idx, amount>>)]
     ELSE mv[a]]

\* a variant that keeps the last amount instead of accumulating
SumAmounts_LastOnly(list) ==
  IF list = << >> THEN 0 ELSE list[Len(list)][2]

\* executor.rs:231-240 : the saturating total of a list of (tx_idx, amount)
RECURSIVE SumAmounts(_)
SumAmounts(list) ==
  IF list = << >> THEN 0
  ELSE SatAdd(SumAmounts(SubSeq(list, 1, Len(list) - 1)), list[Len(list)][2])

\* a variant that drops the sign of a net subtraction
LazyChange_Unsigned(address, ls) ==
  LET total_additions == SumAmounts(ls.balance_additions)
      total_subtractions == SumAmounts(ls.balance_subtractions)
      final_nonce == ls.base_nonce + Len(ls.nonce_increments)
  IN [address |-> address,
      balance_change |->
        IF total_additions >= total_subtractions
        THEN Min(total_additions - total_subtractions, I128_MAX)
        ELSE 0,
      nonce_change |->
        IF final_nonce # ls.base_nonce THEN Some(final_nonce) ELSE None]

LazyChange(address, ls) ==
  LET total_additions == SumAmounts(ls.balance_additions)
      total_subtractions == SumAmounts(ls.balance_subtractions)
      final_nonce == ls.base_nonce + Len(ls.nonce_increments)
  IN [address |-> address,
      balance_change |->
        IF total_additions >= total_subtractions
        THEN (IF total_additions - total_subtractions <= I128_MAX
              THEN total_additions - total_subtractions
              ELSE I128_MAX)
        ELSE (IF total_subtractions - total_additions <= I128_MAX
              THEN -(total_subtractions - total_additions)
              ELSE -I128_MAX - 1),
      nonce_change |->
        IF final_nonce # ls.base_nonce THEN Some(final_nonce) ELSE None]

\* the Vec is built in HashMap iteration order, which is unspecified: the
\* changes are modelled as the set of the Vec's elements
evaluate_lazy_balances(mv) == { LazyChange(a, mv[a]) : a \in DOMAIN mv }

add_lazy_balance_subtraction(mv, address, amount, tx_idx) ==
  [a \in DOMAIN mv \cup {address} |->
     IF a = address
     THEN [LazyEntry(mv, address) EXCEPT
             !.balance_subtractions = Append(@, <<tx_idx, amount>>)]
     ELSE mv[a]]

add_lazy_nonce_increment(mv, address, tx_idx) ==
  [a \in DOMAIN mv \cup {address} |->
     IF a = address
     THEN [LazyEntry(mv, address) EXCEPT !.nonce_increments = Append(@, tx_idx)]
     ELSE mv[a]]

(***************************************************************************)
(* MvMemory of parallel/mv_memory.rs: the same lazy operations, and        *)
(* set_base_account_state and its own evaluate_lazy_balances.              *)
(***************************************************************************)
\* u128::MAX, at the model's width
U128_MAX == 2 * I128_MAX + 1

SatSub(a, b) == IF a >= b THEN a - b ELSE 0

\* a variant that seeds a fresh record, dropping what was recorded
set_base_account_state_Fresh(mv, address, balance, nonce) ==
  [a \in DOMAIN mv \cup {address} |->
     IF a = address
     THEN [EmptyLazyAccount EXCEPT
             !.base_balance = balance, !.base_nonce = nonce]
     ELSE mv[a]]

\* mv_memory.rs:104-114
set_base_account_state(mv, address, balance, nonce) ==
  [a \in DOMAIN mv \cup {address} |->
     IF a = address
     THEN [LazyEntry(mv, address) EXCEPT
             !.base_balance = balance, !.base_nonce = nonce]
     ELSE mv[a]]

\* mv_memory.rs:125-127 : add the pending additions, in list order
RECURSIVE AddAll(_, _)
AddAll(balance, list) ==
  IF list = << >> THEN balance
  ELSE AddAll(SatAdd(balance, Head(list)[2]), Tail(list))

\* mv_memory.rs:130-132 : subtract the pending subtractions, in list order
RECURSIVE SubAll(_, _)
SubAll(balance, list) ==
  IF list = << >> THEN balance
  ELSE SubAll(SatSub(balance, Head(list)[2]), Tail(list))

\* mv_memory.rs:142 : `x as i128` of a u128 reinterprets the bits
U128AsI128(x) == IF x <= I128_MAX THEN x ELSE x - (U128_MAX + 1)

\* mv_memory.rs:120-156 : the change of one account
MvmLazyChange(address, ls) ==
  LET final_balance ==
        SubAll(AddAll(ls.base_balance, ls.balance_additions),
               ls.balance_subtractions)
      final_nonce == ls.base_nonce + Len(ls.nonce_increments)
      balance_change == SatSub(final_balance, ls.base_balance)
  IN [address |-> address,
      balance_change |->
        IF balance_change > U128_MAX THEN I128_MAX
        ELSE U128AsI128(balance_change),
      nonce_change |->
        IF final_nonce # ls.base_nonce THEN Some(final_nonce) ELSE None]

\* mv_memory.rs:117-160
mvm_evaluate_lazy_balances(mv) == { MvmLazyChange(a, mv[a]) : a \in DOMAIN mv }

(***************************************************************************)
(* ParallelExecutor::execute_transaction_parallel                          *)
(***************************************************************************)
TxVersion(i, inc) == [tx_idx |-> i, tx_incarnation |-> inc]

NoChanges == [a \in {} |-> 0]

\* a variant that reports incarnation 0 whatever the version executed
FailedResult_FirstIncarnation(v, msg) ==
  [tx_idx |-> v.tx_idx, gas_used |-> 0, success |-> FALSE, error |-> msg,
   state_changes |-> NoChanges, read_set |-> << >>, write_set |-> << >>,
   incarnation |-> 0]

FailedResult(v, msg) ==
  [tx_idx |-> v.tx_idx, gas_used |-> 0, success |-> FALSE, error |-> msg,
   state_changes |-> NoChanges, read_set |-> << >>, write_set |-> << >>,
   incarnation |-> v.tx_incarnation]

\* HashMap::insert : a later insert for the same key replaces the earlier
MapInsert(map, key, val) ==
  [a \in DOMAIN map \cup {key} |-> IF a = key THEN val ELSE map[a]]

\* a variant that pushes without looking
PushIfAbsent_Always(s, x) == Append(s, x)

PushIfAbsent(s, x) == IF Contains(s, x) THEN s ELSE Append(s, x)

\* the lazy branch of the recipient credit is taken
\* a variant that takes the lazy branch whether or not lazy updates are on
RecordsLazily_Always(tx, cfg) ==
  /\ tx.signer # NoSigner
  /\ tx.gas_limit >= calculate_intrinsic_gas(tx)
  /\ tx.to # Create
  /\ tx.value # 0
  /\ is_ande_precompile_call(tx.to)

RecordsLazily(tx, cfg) ==
  /\ tx.signer # NoSigner
  /\ tx.gas_limit >= calculate_intrinsic_gas(tx)
  /\ tx.to # Create
  /\ tx.value # 0
  /\ cfg.enable_lazy_updates
  /\ is_ande_precompile_call(tx.to)

execute_transaction_parallel(v, tx, cfg) ==
  IF tx.signer = NoSigner THEN FailedResult(v, "Failed to recover signer")
  ELSE IF tx.gas_limit < calculate_intrinsic_gas(tx)
  THEN FailedResult(v, "Intrinsic gas too low")
  ELSE
    LET gas_cost == SatMul(tx.gas_limit, tx.max_fee_per_gas)
        sender_change ==
          [balance_change |-> Some(-TryIntoI128(gas_cost)),
           nonce_change |-> Some(1)]
        sc0 == MapInsert(NoChanges, tx.signer, sender_change)
        transfers == tx.to # Create /\ tx.value # 0
        sc1 == IF transfers /\ ~RecordsLazily(tx, cfg)
               THEN MapInsert(sc0, tx.to,
                      [balance_change |-> Some(TryIntoI128(tx.value)),
                       nonce_change |-> None])
               ELSE sc0
        rw == IF transfers THEN PushIfAbsent(<<tx.signer>>, tx.to)
              ELSE <<tx.signer>>
    IN [tx_idx |-> v.tx_idx, gas_used |-> calculate_intrinsic_gas(tx),
        success |-> TRUE, error |-> "none", state_changes |-> sc1,
        read_set |-> rw, write_set |-> rw, incarnation |-> v.tx_incarnation]

\* the multi-version memory after the routine has run
MvAfterExecute(mv, v, tx, cfg) ==
  IF RecordsLazily(tx, cfg)
  THEN add_lazy_balance_addition(mv, tx.to, tx.value, v.tx_idx)
  ELSE mv

(***************************************************************************)
(* ParallelExecutor::should_use_parallel, analyze_dependencies             *)
(***************************************************************************)
\* a variant that asks for more transactions than the minimum
should_use_parallel_Above(block, cfg) ==
  IF cfg.force_sequential THEN FALSE
  ELSE IF Len(block) <= cfg.min_transactions_for_parallel THEN FALSE
  ELSE TRUE

should_use_parallel(block, cfg) ==
  IF cfg.force_sequential THEN FALSE
  ELSE IF Len(block) < cfg.min_transactions_for_parallel THEN FALSE
  ELSE TRUE

\* the ascending sequence of the elements of a set of naturals
RECURSIVE SortedSeq(_)
SortedSeq(S) ==
  IF S = {} THEN << >>
  ELSE LET x == CHOOSE y \in S : \A z \in S : y <= z
       IN <<x>> \o SortedSeq(S \ {x})

AnalyzeFails(block) == \E i \in 1..Len(block) : block[i].signer = NoSigner

\* a variant that records the later transactions of a signer nowhere
analyze_dependencies_NoDependents(block) ==
  [i \in 0..(Len(block) - 1) |->
     [depends_on |-> SortedSeq({ j \in 0..(Len(block) - 1) :
          j # i /\ TxAt(block, j).signer = TxAt(block, i).signer /\ j < i }),
      dependents |-> << >>]]

analyze_dependencies(block) ==
  [i \in 0..(Len(block) - 1) |->
     [depends_on |-> SortedSeq({ j \in 0..(Len(block) - 1) :
          j # i /\ TxAt(block, j).signer = TxAt(block, i).signer /\ j < i }),
      dependents |-> SortedSeq({ j \in 0..(Len(block) - 1) :
          j # i /\ TxAt(block, j).signer = TxAt(block, i).signer /\ ~(j < i) })]]

(***************************************************************************)
(* ParallelExecutor::execute_sequential                                    *)
(***************************************************************************)
SeqResults(block, cfg) ==
  [i \in 0..(Len(block) - 1) |->
     execute_transaction_parallel(TxVersion(i, 0), TxAt(block, i), cfg)]

RECURSIVE SeqMvMemory(_, _, _)
SeqMvMemory(block, cfg, n) ==
  IF n = 0 THEN MvMemoryNew
  ELSE MvAfterExecute(SeqMvMemory(block, cfg, n - 1),
                      TxVersion(n - 1, 0), TxAt(block, n - 1), cfg)

(***************************************************************************)
(* State.                                                                  *)
(***************************************************************************)
VARIABLES
  caller,             \* "driver" (execute_transactions) or "test" (one thread calling the scheduler)
  block,              \* transactions: Vec<TransactionSigned>
  config,             \* ParallelConfig
  mainpc,             \* position of execute_transactions
  mv_memory,          \* MvMemory.lazy_accounts
  results,            \* the driver's results vector
  final_results,      \* what execute_transactions returns
  lazy_changes,       \* what evaluate_lazy_balances returned at the end
  dependencies,       \* ParallelScheduler.dependencies
  tx_status,          \* ParallelScheduler.tx_status
  retry_counts,       \* ParallelScheduler.retry_counts
  execution_queue,    \* ParallelScheduler.execution_queue
  validation_queue,   \* ParallelScheduler.validation_queue
  execution_results,  \* ParallelScheduler.execution_results
  pc,                 \* per thread: the lock acquisition it is about to make
  task,               \* per thread: the task next_task returned last
  res,                \* per thread: the result it executed or cloned
  k,                  \* per thread: position in the dependents loop
  m,                  \* per thread: position in the depends_on loop
  held,               \* per thread: the mutex guards it holds
  poisoned,           \* mutexes whose guard was dropped by a panicking thread
  call,               \* SchedSpec: the method called last and its argument
  pre,                \* SchedSpec: the scheduler's state when it was called
  eth_precompiles,    \* AndePrecompileProvider.eth_precompiles
  journal             \* the journal of the EVM context a precompile runs in

schedVars == <<dependencies, tx_status, retry_counts, execution_queue,
               validation_queue, execution_results>>
driverVars == <<block, config, mainpc, mv_memory, results, final_results,
                lazy_changes>>
threadVars == <<pc, task, res, k, m, held, poisoned>>
evmVars == <<eth_precompiles, journal>>
vars == <<caller, driverVars, schedVars, threadVars, call, pre, evmVars>>

Workers == 1..NumWorkers

\* the values of eth_precompiles and journal where no provider and no EVM
\* context exist
NoProvider == [spec |-> "none", precompiles |-> {}]
NoJournal == [balance |-> << >>, db_ok |-> TRUE]

(***************************************************************************)
(* Tasks and results.                                                      *)
(***************************************************************************)
\* Option<ParallelTask>: kind is "Execute", "Validate" or "None"
NoTask == [kind |-> "None", tx_idx |-> 0, tx_incarnation |-> 0]
Execute(v) == [kind |-> "Execute", tx_idx |-> v.tx_idx,
               tx_incarnation |-> v.tx_incarnation]
Validate(v) == [kind |-> "Validate", tx_idx |-> v.tx_idx,
                tx_incarnation |-> v.tx_incarnation]
VersionOf(t) == TxVersion(t.tx_idx, t.tx_incarnation)

NoRes == FailedResult(TxVersion(0, 0), "unset")

N == Len(block)
TxIdxs == DOMAIN tx_status

(***************************************************************************)
(* Mutexes.  A mutex is named <<kind, index>>.  std::sync::Mutex::lock     *)
(* blocks while another thread holds the mutex; when the calling thread    *)
(* holds it already the call never returns (it deadlocks or panics,        *)
(* whichever the platform does); .unwrap() panics on a poisoned mutex.     *)
(***************************************************************************)
StatusLock(i) == <<"status", i>>
RetryLock(i) == <<"retry", i>>
ExecQLock == <<"execution_queue", 0>>
ValQLock == <<"validation_queue", 0>>
NoLock == <<"none", 0>>

HeldByOther(w, l) == \E u \in Workers : u # w /\ l \in held[u]

\* lock().unwrap() returns the guard
CanLock(w, l) ==
  l = NoLock \/ (l \notin held[w] /\ ~HeldByOther(w, l) /\ l \notin poisoned)

\* where a method returns to
Ret == IF caller = "driver" THEN "nt_val" ELSE "idle"

\* the worker loop drops its task when the arm that handled it ends
TaskAfter(w) ==
  IF caller = "driver" /\ pc'[w] = "nt_val"
  THEN [task EXCEPT ![w] = NoTask] ELSE task

\* schedule_validation is the last statement of the Execute arm
TaskAfterSchedule(w) == [task EXCEPT ![w] = NoTask]

(***************************************************************************)
(* ParallelScheduler::new, initialize_execution_queue                      *)
(***************************************************************************)
\* a variant that enqueues the blocked transactions instead
initialize_execution_queue_Blocked(deps) ==
  LET blocked == { i \in DOMAIN deps : deps[i].depends_on # << >> }
      order == SortedSeq(blocked)
  IN [j \in 1..Len(order) |-> TxVersion(order[j], 0)]

\* a variant that enqueues every transaction, blocked or not
initialize_execution_queue_All(deps) ==
  LET order == SortedSeq(DOMAIN deps)
  IN [j \in 1..Len(order) |-> TxVersion(order[j], 0)]

\* executor.rs:876-887
initialize_execution_queue(deps) ==
  LET ready == { i \in DOMAIN deps : deps[i].depends_on = << >> }
      order == SortedSeq(ready)
  IN [j \in 1..Len(order) |-> TxVersion(order[j], 0)]

(***************************************************************************)
(* ParallelScheduler::next_task                                            *)
(***************************************************************************)
\* a variant of the worker loop that also stops when it is handed an
\* Execute task
AfterNextTask_StopsOnExecute(t) ==
  IF caller = "test" THEN "idle"
  ELSE IF t.kind = "None" THEN "exited"
  ELSE IF t.kind = "Execute" THEN "exited"
  ELSE "fv_get"

\* where the caller of next_task goes with the task it got
AfterNextTask(t) ==
  IF caller = "test" THEN "idle"
  ELSE IF t.kind = "None" THEN "exited"
  ELSE IF t.kind = "Execute" THEN "exec"
  ELSE "fv_get"

\* next_task, first block: pop the validation queue
NextTaskValidation(w) ==
  /\ pc[w] = "nt_val"
  /\ CanLock(w, ValQLock)
  /\ IF validation_queue # << >>
     THEN /\ task' = [task EXCEPT ![w] = Validate(Head(validation_queue))]
          /\ validation_queue' = Tail(validation_queue)
          /\ pc' = [pc EXCEPT ![w] = AfterNextTask(Validate(Head(validation_queue)))]
     ELSE /\ pc' = [pc EXCEPT ![w] = "nt_exec"]
          /\ UNCHANGED <<task, validation_queue>>
  /\ UNCHANGED <<caller, evmVars, driverVars, dependencies, tx_status, retry_counts,
                 execution_queue, execution_results, res, k, m, held,
                 poisoned, call, pre>>

\* next_task, second block: pop the execution queue, or return None
NextTaskExecution(w) ==
  /\ pc[w] = "nt_exec"
  /\ CanLock(w, ExecQLock)
  /\ IF execution_queue # << >>
     THEN /\ task' = [task EXCEPT ![w] = Execute(Head(execution_queue))]
          /\ execution_queue' = Tail(execution_queue)
          /\ pc' = [pc EXCEPT ![w] = AfterNextTask(Execute(Head(execution_queue)))]
     ELSE /\ task' = [task EXCEPT ![w] = NoTask]
          /\ pc' = [pc EXCEPT ![w] = AfterNextTask(NoTask)]
          /\ UNCHANGED execution_queue
  /\ UNCHANGED <<caller, evmVars, driverVars, dependencies, tx_status, retry_counts,
                 validation_queue, execution_results, res, k, m, held,
                 poisoned, call, pre>>

(***************************************************************************)
(* The worker's Execute arm: execute_transaction_parallel, store_result,   *)
(* the results vector, schedule_validation.                                *)
(***************************************************************************)
store_result(er, r) == [er EXCEPT ![r.tx_idx] = Some(r)]

\* executor.rs:367-381 : run the routine, store the result for validation and
\* in the results vector.  The routine touches no shared state but the
\* multi-version memory, which nothing reads before the workers are joined.
ExecuteTask(w) ==
  /\ pc[w] = "exec"
  /\ LET v == VersionOf(task[w])
         tx == TxAt(block, v.tx_idx)
         result == execute_transaction_parallel(v, tx, config)
     IN /\ mv_memory' = MvAfterExecute(mv_memory, v, tx, config)
        /\ execution_results' = store_result(execution_results, result)
        /\ results' = [results EXCEPT ![v.tx_idx] = Some(result)]
  /\ pc' = [pc EXCEPT ![w] = "sched"]
  /\ UNCHANGED <<caller, evmVars, block, config, mainpc, final_results, lazy_changes,
                 dependencies, tx_status, retry_counts, execution_queue,
                 validation_queue, task, res, k, m, held, poisoned, call, pre>>

ScheduleValidation(w) ==
  /\ pc[w] = "sched"
  /\ CanLock(w, ValQLock)
  /\ validation_queue' = Append(validation_queue, VersionOf(task[w]))
  /\ pc' = [pc EXCEPT ![w] = Ret]
  /\ task' = TaskAfterSchedule(w)
  /\ UNCHANGED <<caller, evmVars, driverVars, dependencies, tx_status, retry_counts,
                 execution_queue, execution_results, res, k, m, held,
                 poisoned, call, pre>>

(***************************************************************************)
(* The lock a thread is about to take, from its position.                  *)
(***************************************************************************)
CurTx(w) == task[w].tx_idx
CurDependent(w) == dependencies[CurTx(w)].dependents[k[w]]
CurDep(w) == dependencies[CurDependent(w)].depends_on[m[w]]

Wants(w) ==
  CASE pc[w] \in {"nt_val", "sched"} -> ValQLock
    [] pc[w] \in {"nt_exec", "fv_retry_push", "ub_push", "fe_push"} -> ExecQLock
    [] pc[w] = "fv_retry_lock" -> RetryLock(CurTx(w))
    [] pc[w] \in {"fv_retry_status", "fv_fail_status", "fv_ok_status",
                  "fe_status"} -> StatusLock(CurTx(w))
    [] pc[w] \in {"ub_dependent", "fe_ready"} -> StatusLock(CurDependent(w))
    [] pc[w] \in {"ub_dep", "fe_dep"} -> StatusLock(CurDep(w))
    [] OTHER -> NoLock

(***************************************************************************)
(* ParallelScheduler::detect_conflicts                                     *)
(***************************************************************************)
\* a variant that also counts an equal incarnation as a re-execution
HigherIncarnation_OrEqual(earlier_incarnation, incarnation) ==
  earlier_incarnation >= incarnation

\* executor.rs:1077 : the earlier transaction was executed at a higher incarnation
HigherIncarnation(earlier_incarnation, incarnation) ==
  earlier_incarnation > incarnation

\* a variant whose binding check also ranges over the later transactions
EarlierIdxs_AndLater(er, tx_idx) == { j \in DOMAIN er : j # tx_idx }

\* executor.rs:1070 : the indices the binding check ranges over
EarlierIdxs(er, tx_idx) == { j \in DOMAIN er : j < tx_idx }

\* executor.rs:1073-1089 : the loop over the read set, from position r
RECURSIVE ReadSetLoop(_, _, _)
ReadSetLoop(earlier_result, result, r) ==
  IF r > Len(result.read_set) THEN FALSE
  ELSE IF /\ Contains(earlier_result.write_set, result.read_set[r])
          /\ HigherIncarnation(earlier_result.incarnation, result.incarnation)
  THEN TRUE
  ELSE ReadSetLoop(earlier_result, result, r + 1)

\* executor.rs:1070-1091 : the loop over the earlier results, in index order
RECURSIVE EarlierLoop(_, _, _, _)
EarlierLoop(er, idxs, tx_idx, result) ==
  IF idxs = {} THEN FALSE
  ELSE LET earlier_idx == CHOOSE j \in idxs : \A j2 \in idxs : j <= j2
       IN IF IsSome(er[earlier_idx]) /\ ReadSetLoop(er[earlier_idx][1], result, 1)
          THEN TRUE
          ELSE EarlierLoop(er, idxs \ {earlier_idx}, tx_idx, result)

\* a variant that reports every earlier stored result whose write set meets
\* the read set, whatever the incarnations
detect_conflicts_AnyWriter(er, tx_idx, result) ==
  \E j \in EarlierIdxs(er, tx_idx) :
    /\ IsSome(er[j])
    /\ \E r \in 1..Len(result.read_set) :
         Contains(er[j][1].write_set, result.read_set[r])

\* executor.rs:1094-1114 : the loop over the later results only logs; the
\* function then returns false
detect_conflicts(er, tx_idx, result) ==
  EarlierLoop(er, EarlierIdxs(er, tx_idx), tx_idx, result)

(***************************************************************************)
(* ParallelScheduler::finish_validation                                    *)
(***************************************************************************)
\* executor.rs:984-995 : clone the stored result, or return when there is none
FinishValidationGet(w) ==
  /\ pc[w] = "fv_get"
  /\ IF IsSome(execution_results[CurTx(w)])
     THEN /\ res' = [res EXCEPT ![w] = execution_results[CurTx(w)][1]]
          /\ pc' = [pc EXCEPT ![w] = "fv_detect"]
     ELSE /\ pc' = [pc EXCEPT ![w] = Ret]
          /\ UNCHANGED res
  /\ task' = TaskAfter(w)
  /\ UNCHANGED <<caller, evmVars, driverVars, schedVars, k, m, held, poisoned,
                 call, pre>>

\* executor.rs:998 : has_conflict
FinishValidationDetect(w) ==
  /\ pc[w] = "fv_detect"
  /\ pc' = [pc EXCEPT ![w] =
       IF detect_conflicts(execution_results, CurTx(w), res[w])
       THEN "fv_retry_lock" ELSE "fv_ok_status"]
  /\ res' = [res EXCEPT ![w] = NoRes]
  /\ UNCHANGED <<caller, evmVars, driverVars, schedVars, task, k, m, held,
                 poisoned, call, pre>>

\* a variant that allows one retry more
CanRetry_Inclusive(retry_count, cfg) == retry_count <= cfg.max_retries

\* a variant that gives up one retry early
CanRetry_Early(retry_count, cfg) == retry_count + 1 < cfg.max_retries

\* executor.rs:1004 : may the transaction be retried
CanRetry(retry_count, cfg) == retry_count < cfg.max_retries

\* executor.rs:1002-1005 : take the retry counter, count the retry
FinishValidationRetryCount(w) ==
  /\ pc[w] = "fv_retry_lock"
  /\ CanLock(w, Wants(w))
  /\ held' = [held EXCEPT ![w] = @ \cup {RetryLock(CurTx(w))}]
  /\ IF CanRetry(retry_counts[CurTx(w)], config)
     THEN /\ retry_counts' = [retry_counts EXCEPT ![CurTx(w)] = @ + 1]
          /\ pc' = [pc EXCEPT ![w] = "fv_retry_push"]
     ELSE /\ pc' = [pc EXCEPT ![w] = "fv_fail_status"]
          /\ UNCHANGED retry_counts
  /\ UNCHANGED <<caller, evmVars, driverVars, dependencies, tx_status, execution_queue,
                 validation_queue, execution_results, task, res, k, m,
                 poisoned, call, pre>>

\* a variant that retries at the incarnation that was validated
RetryVersion_SameIncarnation(v) == TxVersion(v.tx_idx, v.tx_incarnation)

\* executor.rs:1015-1019 : the retry task
RetryVersion(v) == TxVersion(v.tx_idx, v.tx_incarnation + 1)

FinishValidationRetryPush(w) ==
  /\ pc[w] = "fv_retry_push"
  /\ CanLock(w, Wants(w))
  /\ held' = [held EXCEPT ![w] = @ \cup {ExecQLock}]
  /\ execution_queue' = Append(execution_queue, RetryVersion(VersionOf(task[w])))
  /\ pc' = [pc EXCEPT ![w] = "fv_retry_status"]
  /\ UNCHANGED <<caller, evmVars, driverVars, dependencies, tx_status, retry_counts,
                 validation_queue, execution_results, task, res, k, m,
                 poisoned, call, pre>>

\* executor.rs:1022-1024 : Ready; every guard is dropped at the end of the branch
FinishValidationRetryStatus(w) ==
  /\ pc[w] = "fv_retry_status"
  /\ CanLock(w, Wants(w))
  /\ tx_status' = [tx_status EXCEPT ![CurTx(w)] = "Ready"]
  /\ held' = [held EXCEPT ![w] = {}]
  /\ pc' = [pc EXCEPT ![w] = Ret]
  /\ task' = TaskAfter(w)
  /\ UNCHANGED <<caller, evmVars, driverVars, dependencies, retry_counts,
                 execution_queue, validation_queue, execution_results, res, k, m, poisoned, call, pre>>

\* executor.rs:1033-1034 : Failed
FinishValidationFail(w) ==
  /\ pc[w] = "fv_fail_status"
  /\ CanLock(w, Wants(w))
  /\ tx_status' = [tx_status EXCEPT ![CurTx(w)] = "Failed"]
  /\ held' = [held EXCEPT ![w] = {}]
  /\ pc' = [pc EXCEPT ![w] = Ret]
  /\ task' = TaskAfter(w)
  /\ UNCHANGED <<caller, evmVars, driverVars, dependencies, retry_counts,
                 execution_queue, validation_queue, execution_results, res, k, m, poisoned, call, pre>>

\* executor.rs:1044-1048 : Completed; the status guard lives on while
\* unblock_dependents runs
FinishValidationComplete(w) ==
  /\ pc[w] = "fv_ok_status"
  /\ CanLock(w, Wants(w))
  /\ tx_status' = [tx_status EXCEPT ![CurTx(w)] = "Completed"]
  /\ IF dependencies[CurTx(w)].dependents = << >>
     THEN /\ held' = [held EXCEPT ![w] = {}]
          /\ pc' = [pc EXCEPT ![w] = Ret]
          /\ UNCHANGED k
     ELSE /\ held' = [held EXCEPT ![w] = @ \cup {StatusLock(CurTx(w))}]
          /\ pc' = [pc EXCEPT ![w] = "ub_dependent"]
          /\ k' = [k EXCEPT ![w] = 1]
  /\ task' = TaskAfter(w)
  /\ UNCHANGED <<caller, evmVars, driverVars, dependencies, retry_counts,
                 execution_queue, validation_queue, execution_results, res, m, poisoned, call, pre>>

(***************************************************************************)
(* ParallelScheduler::unblock_dependents                                   *)
(***************************************************************************)
\* a variant that also accepts a dependency that is still Ready
DepCompleted_OrReady(status) == status \in {"Completed", "Ready"}

\* executor.rs:927, 1126 : matches!(status, TxStatus::Completed)
DepCompleted(status) == status = "Completed"

\* executor.rs:1132 : the dependent is enqueued
ShouldEnqueue(all_deps_completed, status) ==
  all_deps_completed /\ status = "Ready"

\* the loop body for one dependent ends: its guard is dropped; after the last
\* dependent unblock_dependents and finish_validation return
UnblockNext(w) ==
  IF k[w] = Len(dependencies[CurTx(w)].dependents)
  THEN /\ held' = [held EXCEPT ![w] = {}]
       /\ pc' = [pc EXCEPT ![w] = Ret]
       /\ UNCHANGED <<k, m>>
  ELSE /\ held' = [held EXCEPT ![w] = @ \ {StatusLock(CurDependent(w))}]
       /\ pc' = [pc EXCEPT ![w] = "ub_dependent"]
       /\ k' = [k EXCEPT ![w] = @ + 1]
       /\ UNCHANGED m

\* executor.rs:1120 : take the dependent's status
UnblockLockDependent(w) ==
  /\ pc[w] = "ub_dependent"
  /\ CanLock(w, Wants(w))
  /\ IF dependencies[CurDependent(w)].depends_on = << >>
     THEN IF ShouldEnqueue(TRUE, tx_status[CurDependent(w)])
          THEN /\ held' = [held EXCEPT ![w] = @ \cup {StatusLock(CurDependent(w))}]
               /\ pc' = [pc EXCEPT ![w] = "ub_push"]
               /\ UNCHANGED <<k, m>>
          ELSE UnblockNext(w)
     ELSE /\ held' = [held EXCEPT ![w] = @ \cup {StatusLock(CurDependent(w))}]
          /\ pc' = [pc EXCEPT ![w] = "ub_dep"]
          /\ m' = [m EXCEPT ![w] = 1]
          /\ UNCHANGED k
  /\ task' = TaskAfter(w)
  /\ UNCHANGED <<caller, evmVars, driverVars, schedVars, res, poisoned, call, pre>>

\* executor.rs:1124-1130 : look at one dependency of the dependent
UnblockCheckDep(w) ==
  /\ pc[w] = "ub_dep"
  /\ CanLock(w, Wants(w))
  /\ IF ~DepCompleted(tx_status[CurDep(w)])
     THEN UnblockNext(w)
     ELSE IF m[w] < Len(dependencies[CurDependent(w)].depends_on)
     THEN /\ m' = [m EXCEPT ![w] = @ + 1]
          /\ UNCHANGED <<pc, k, held>>
     ELSE IF ShouldEnqueue(TRUE, tx_status[CurDependent(w)])
     THEN /\ pc' = [pc EXCEPT ![w] = "ub_push"]
          /\ UNCHANGED <<k, m, held>>
     ELSE UnblockNext(w)
  /\ task' = TaskAfter(w)
  /\ UNCHANGED <<caller, evmVars, driverVars, schedVars, res, poisoned, call, pre>>

\* executor.rs:1133-1137 : enqueue the dependent at incarnation 0
UnblockPush(w) ==
  /\ pc[w] = "ub_push"
  /\ CanLock(w, Wants(w))
  /\ execution_queue' = Append(execution_queue, TxVersion(CurDependent(w), 0))
  /\ UnblockNext(w)
  /\ task' = TaskAfter(w)
  /\ UNCHANGED <<caller, evmVars, driverVars, dependencies, tx_status, retry_counts,
                 validation_queue, execution_results, res, poisoned,
                 call, pre>>

(***************************************************************************)
(* ParallelScheduler::finish_execution                                     *)
(***************************************************************************)
\* where the loop over the dependents goes for dependent number kk
FinishExecutionAt(w, kk) ==
  IF kk > Len(dependencies[CurTx(w)].dependents)
  THEN /\ pc' = [pc EXCEPT ![w] = Ret]
       /\ UNCHANGED <<k, m>>
  ELSE /\ k' = [k EXCEPT ![w] = kk]
       /\ m' = [m EXCEPT ![w] = 1]
       /\ pc' = [pc EXCEPT ![w] =
            IF dependencies[dependencies[CurTx(w)].dependents[kk]].depends_on = << >>
            THEN "fe_ready" ELSE "fe_dep"]

\* executor.rs:913-916 : Completed, the guard is dropped at once
FinishExecutionComplete(w) ==
  /\ pc[w] = "fe_status"
  /\ CanLock(w, Wants(w))
  /\ tx_status' = [tx_status EXCEPT ![CurTx(w)] = "Completed"]
  /\ FinishExecutionAt(w, 1)
  /\ UNCHANGED <<caller, evmVars, driverVars, dependencies, retry_counts,
                 execution_queue, validation_queue, execution_results, task,
                 res, held, poisoned, call, pre>>

\* executor.rs:925-932 : look at one dependency of the dependent
FinishExecutionCheckDep(w) ==
  /\ pc[w] = "fe_dep"
  /\ CanLock(w, Wants(w))
  /\ IF ~DepCompleted(tx_status[CurDep(w)])
     THEN FinishExecutionAt(w, k[w] + 1)
     ELSE IF m[w] < Len(dependencies[CurDependent(w)].depends_on)
     THEN /\ m' = [m EXCEPT ![w] = @ + 1]
          /\ UNCHANGED <<pc, k>>
     ELSE /\ pc' = [pc EXCEPT ![w] = "fe_ready"]
          /\ UNCHANGED <<k, m>>
  /\ UNCHANGED <<caller, evmVars, driverVars, schedVars, task, res, held, poisoned,
                 call, pre>>

\* executor.rs:937-940 : is the dependent still Ready
FinishExecutionCheckReady(w) ==
  /\ pc[w] = "fe_ready"
  /\ CanLock(w, Wants(w))
  /\ IF ShouldEnqueue(TRUE, tx_status[CurDependent(w)])
     THEN /\ pc' = [pc EXCEPT ![w] = "fe_push"]
          /\ UNCHANGED <<k, m>>
     ELSE FinishExecutionAt(w, k[w] + 1)
  /\ UNCHANGED <<caller, evmVars, driverVars, schedVars, task, res, held, poisoned,
                 call, pre>>

\* executor.rs:944-948 : enqueue the dependent at incarnation 0
FinishExecutionPush(w) ==
  /\ pc[w] = "fe_push"
  /\ CanLock(w, Wants(w))
  /\ execution_queue' = Append(execution_queue, TxVersion(CurDependent(w), 0))
  /\ FinishExecutionAt(w, k[w] + 1)
  /\ UNCHANGED <<caller, evmVars, driverVars, dependencies, tx_status, retry_counts,
                 validation_queue, execution_results, task, res, held,
                 poisoned, call, pre>>

(***************************************************************************)
(* A lock() that cannot return a guard: the thread holds the mutex already *)
(* (the call deadlocks or panics) or the mutex is poisoned (unwrap panics).*)
(* A panicking thread drops its guards, which poisons their mutexes.       *)
(***************************************************************************)
LockFailure(w) ==
  /\ Wants(w) # NoLock
  /\ \/ /\ Wants(w) \in held[w]
        /\ \/ /\ pc' = [pc EXCEPT ![w] = "deadlocked"]
              /\ UNCHANGED <<held, poisoned>>
           \/ /\ pc' = [pc EXCEPT ![w] = "panicked"]
              /\ poisoned' = poisoned \cup held[w]
              /\ held' = [held EXCEPT ![w] = {}]
     \/ /\ Wants(w) \notin held[w]
        /\ ~HeldByOther(w, Wants(w))
        /\ Wants(w) \in poisoned
        /\ pc' = [pc EXCEPT ![w] = "panicked"]
        /\ poisoned' = poisoned \cup held[w]
        /\ held' = [held EXCEPT ![w] = {}]
  /\ UNCHANGED <<caller, evmVars, driverVars, schedVars, task, res, k, m, call, pre>>

(***************************************************************************)
(* ParallelExecutor::execute_transactions                                  *)
(***************************************************************************)
FreshStatus(n) == [i \in 0..(n - 1) |-> "Ready"]
FreshCounts(n) == [i \in 0..(n - 1) |-> 0]
FreshResults(n) == [i \in 0..(n - 1) |-> None]

\* executor.rs:408-425 : a transaction without a result gets a failed one
CollectResults(rs) ==
  [i \in DOMAIN rs |->
     IF IsSome(rs[i]) THEN rs[i][1]
     ELSE FailedResult(TxVersion(i, 0), "No execution result")]

\* executor.rs:319-346 : choose the path, analyze, build the scheduler, spawn
Start ==
  /\ caller = "driver"
  /\ mainpc = "start"
  /\ IF ~should_use_parallel(block, config)
     THEN /\ mainpc' = "returned_sequential"
          /\ final_results' = SeqResults(block, config)
          /\ lazy_changes' = evaluate_lazy_balances(SeqMvMemory(block, config, N))
          /\ UNCHANGED <<results, schedVars, pc>>
     ELSE IF AnalyzeFails(block)
     THEN /\ mainpc' = "error"
          /\ UNCHANGED <<results, final_results, lazy_changes, schedVars, pc>>
     ELSE /\ mainpc' = "scope"
          /\ dependencies' = analyze_dependencies(block)
          /\ tx_status' = FreshStatus(N)
          /\ retry_counts' = FreshCounts(N)
          /\ execution_queue' = initialize_execution_queue(analyze_dependencies(block))
          /\ validation_queue' = << >>
          /\ execution_results' = FreshResults(N)
          /\ results' = FreshResults(N)
          /\ pc' = [w \in Workers |-> "nt_val"]
          /\ UNCHANGED <<final_results, lazy_changes>>
  /\ UNCHANGED <<caller, evmVars, block, config, mv_memory, task, res, k, m, held,
                 poisoned, call, pre>>

\* executor.rs:402-437 : thread::scope joins the workers (and panics when one
\* of them panicked), then the results are collected
Join ==
  /\ caller = "driver"
  /\ mainpc = "scope"
  /\ \A w \in Workers : pc[w] \in {"exited", "panicked"}
  /\ IF \E w \in Workers : pc[w] = "panicked"
     THEN /\ mainpc' = "panicked"
          /\ UNCHANGED <<final_results, lazy_changes>>
     ELSE /\ mainpc' = "returned_parallel"
          /\ final_results' = CollectResults(results)
          /\ lazy_changes' = evaluate_lazy_balances(mv_memory)
  /\ UNCHANGED <<caller, evmVars, block, config, mv_memory, results, schedVars,
                 threadVars, call, pre>>

Init ==
  /\ caller = "driver"
  /\ eth_precompiles = NoProvider
  /\ journal = NoJournal
  /\ block \in Blocks
  /\ config \in Configs
  /\ mainpc = "start"
  /\ mv_memory = MvMemoryNew
  /\ results = << >>
  /\ final_results = << >>
  /\ lazy_changes = {}
  /\ dependencies = << >>
  /\ tx_status = << >>
  /\ retry_counts = << >>
  /\ execution_queue = << >>
  /\ validation_queue = << >>
  /\ execution_results = << >>
  /\ pc = [w \in Workers |-> "unspawned"]
  /\ task = [w \in Workers |-> NoTask]
  /\ res = [w \in Workers |-> NoRes]
  /\ k = [w \in Workers |-> 1]
  /\ m = [w \in Workers |-> 1]
  /\ held = [w \in Workers |-> {}]
  /\ poisoned = {}
  /\ call = "none"
  /\ pre = << >>

(***************************************************************************)
(* One action per method: a step of the method is one lock acquisition and *)
(* the code that follows it up to the next one.                            *)
(***************************************************************************)
next_task(w) ==
  /\ pc[w] \in {"nt_val", "nt_exec"}
  /\ (NextTaskValidation(w) \/ NextTaskExecution(w))

finish_validation(w) ==
  /\ pc[w] \in {"fv_get", "fv_detect", "fv_retry_lock", "fv_retry_push",
                "fv_retry_status", "fv_fail_status", "fv_ok_status"}
  /\ \/ FinishValidationGet(w)
     \/ FinishValidationDetect(w)
     \/ FinishValidationRetryCount(w)
     \/ FinishValidationRetryPush(w)
     \/ FinishValidationRetryStatus(w)
     \/ FinishValidationFail(w)
     \/ FinishValidationComplete(w)

unblock_dependents(w) ==
  /\ pc[w] \in {"ub_dependent", "ub_dep", "ub_push"}
  /\ (UnblockLockDependent(w) \/ UnblockCheckDep(w) \/ UnblockPush(w))

finish_execution(w) ==
  /\ pc[w] \in {"fe_status", "fe_dep", "fe_ready", "fe_push"}
  /\ \/ FinishExecutionComplete(w)
     \/ FinishExecutionCheckDep(w)
     \/ FinishExecutionCheckReady(w)
     \/ FinishExecutionPush(w)

\* executor.rs:362-397 : the worker loop
WorkerStep(w) ==
  \/ next_task(w)
  \/ ExecuteTask(w)
  \/ ScheduleValidation(w)
  \/ finish_validation(w)
  \/ unblock_dependents(w)
  \/ LockFailure(w)

Next ==
  \/ Start
  \/ Join
  \/ \E w \in Workers : WorkerStep(w)

Spec == Init /\ [][Next]_vars

FairSpec == Spec /\ \A w \in Workers : WF_vars(WorkerStep(w))

(***************************************************************************)
(* SchedSpec: one thread calls the scheduler's public methods, as the unit *)
(* tests of executor.rs do: it takes a task with next_task, stores a       *)
(* result of its choosing for an Execute task and schedules its validation *)
(* or finishes its execution, and finishes the validation of a Validate    *)
(* task.  A call may be repeated on the task the thread holds.             *)
(***************************************************************************)
Tester == 1

Dep(on, ds) == [depends_on |-> on, dependents |-> ds]
Graph(d0, d1, d2) == [i \in 0..2 |-> IF i = 0 THEN d0 ELSE IF i = 1 THEN d1 ELSE d2]

\* executor.rs:2004 test_scheduler_independent_transactions
GraphIndependent == Graph(Dep(<< >>, << >>), Dep(<< >>, << >>), Dep(<< >>, << >>))
\* executor.rs:1889 test_scheduler_chain_dependency
GraphChain == Graph(Dep(<< >>, <<1>>), Dep(<<0>>, <<2>>), Dep(<<1>>, << >>))
\* executor.rs:1347 test_scheduler_dependency_resolution
GraphFan == Graph(Dep(<< >>, <<1, 2>>), Dep(<<0>>, << >>), Dep(<<0>>, << >>))
\* executor.rs:1940 test_scheduler_diamond_dependency, the joining arms
GraphJoin == Graph(Dep(<< >>, <<2>>), Dep(<< >>, <<2>>), Dep(<<0, 1>>, << >>))
\* what analyze_dependencies gives for three transactions of one signer
GraphSigner == analyze_dependencies(
  << Tx("A", "C", 1, 21000), Tx("A", "C", 1, 21000), Tx("A", "C", 1, 21000) >>)

SchedGraphs == {GraphIndependent, GraphChain, GraphFan, GraphJoin, GraphSigner}

\* the results a caller stores: the read and write sets of the tests
StoredShapes == { <<<< >>, <<"X">>>>, <<<<"X">>, << >>>> }

StoredResult(i, inc, shape) ==
  [tx_idx |-> i, gas_used |-> 21000, success |-> TRUE, error |-> "none",
   state_changes |-> NoChanges, read_set |-> shape[1], write_set |-> shape[2],
   incarnation |-> inc]

Snapshot ==
  [tx_status |-> tx_status, retry_counts |-> retry_counts,
   execution_queue |-> execution_queue, validation_queue |-> validation_queue,
   execution_results |-> execution_results]

QueuesBelowBound ==
  Len(execution_queue) < MaxQueue /\ Len(validation_queue) < MaxQueue

SchedInit ==
  /\ caller = "test"
  /\ eth_precompiles = NoProvider
  /\ journal = NoJournal
  /\ block = << >>
  /\ config \in { c \in Configs : c.enable_lazy_updates }
  /\ mainpc = "test"
  /\ mv_memory = MvMemoryNew
  /\ results = << >>
  /\ final_results = << >>
  /\ lazy_changes = {}
  /\ dependencies \in SchedGraphs
  /\ tx_status = FreshStatus(3)
  /\ retry_counts = FreshCounts(3)
  /\ execution_queue = initialize_execution_queue(dependencies)
  /\ validation_queue = << >>
  /\ execution_results = FreshResults(3)
  /\ pc = [w \in Workers |-> IF w = Tester THEN "idle" ELSE "unused"]
  /\ task = [w \in Workers |-> NoTask]
  /\ res = [w \in Workers |-> NoRes]
  /\ k = [w \in Workers |-> 1]
  /\ m = [w \in Workers |-> 1]
  /\ held = [w \in Workers |-> {}]
  /\ poisoned = {}
  /\ call = "none"
  /\ pre = Snapshot

\* the thread calls a method that takes locks: it runs from position p
Enter(name, p) ==
  /\ caller = "test"
  /\ pc[Tester] = "idle"
  /\ pc' = [pc EXCEPT ![Tester] = p]
  /\ call' = name
  /\ pre' = Snapshot
  /\ UNCHANGED <<caller, evmVars, driverVars, schedVars, task, res, k, m, held, poisoned>>

CallNextTask ==
  /\ held[Tester] = {}
  /\ Enter("next_task", "nt_val")

CallFinishExecution ==
  /\ task[Tester].kind = "Execute"
  /\ QueuesBelowBound
  /\ Enter("finish_execution", "fe_status")

CallScheduleValidation ==
  /\ task[Tester].kind = "Execute"
  /\ QueuesBelowBound
  /\ Enter("schedule_validation", "sched")

CallFinishValidation ==
  /\ task[Tester].kind = "Validate"
  /\ QueuesBelowBound
  /\ Enter("finish_validation", "fv_get")

\* executor.rs:1143-1147 : store_result, one critical section
CallStoreResult ==
  /\ caller = "test"
  /\ pc[Tester] = "idle"
  /\ task[Tester].kind = "Execute"
  /\ \E inc \in 0..MaxInc, shape \in StoredShapes :
       execution_results' =
         store_result(execution_results, StoredResult(CurTx(Tester), inc, shape))
  /\ call' = "store_result"
  /\ pre' = Snapshot
  /\ UNCHANGED <<caller, evmVars, driverVars, dependencies, tx_status, retry_counts,
                 execution_queue, validation_queue, threadVars>>

SchedNext ==
  \/ CallNextTask
  \/ CallFinishExecution
  \/ CallScheduleValidation
  \/ CallFinishValidation
  \/ CallStoreResult
  \/ next_task(Tester)
  \/ ScheduleValidation(Tester)
  \/ finish_validation(Tester)
  \/ unblock_dependents(Tester)
  \/ finish_execution(Tester)
  \/ LockFailure(Tester)

SchedSpec == SchedInit /\ [][SchedNext]_vars

(***************************************************************************)
(* FinishSpec: the threads share one fresh scheduler.  Each takes tasks    *)
(* with next_task and calls finish_execution on the Execute task it holds, *)
(* as the scheduler tests do, at most MaxOps times; call counts the        *)
(* finish_execution calls of each thread.                                  *)
(***************************************************************************)
FinishInit ==
  /\ caller = "test"
  /\ eth_precompiles = NoProvider
  /\ journal = NoJournal
  /\ block = << >>
  /\ config \in { c \in Configs : c.enable_lazy_updates }
  /\ mainpc = "test"
  /\ mv_memory = MvMemoryNew
  /\ results = << >>
  /\ final_results = << >>
  /\ lazy_changes = {}
  /\ dependencies \in SchedGraphs
  /\ tx_status = FreshStatus(3)
  /\ retry_counts = FreshCounts(3)
  /\ execution_queue = initialize_execution_queue(dependencies)
  /\ validation_queue = << >>
  /\ execution_results = FreshResults(3)
  /\ pc = [w \in Workers |-> "idle"]
  /\ task = [w \in Workers |-> NoTask]
  /\ res = [w \in Workers |-> NoRes]
  /\ k = [w \in Workers |-> 1]
  /\ m = [w \in Workers |-> 1]
  /\ held = [w \in Workers |-> {}]
  /\ poisoned = {}
  /\ call = [w \in Workers |-> 0]
  /\ pre = << >>

\* scheduler.next_task()
FinishCallNextTask(w) ==
  /\ pc[w] = "idle"
  /\ pc' = [pc EXCEPT ![w] = "nt_val"]
  /\ UNCHANGED <<caller, evmVars, driverVars, schedVars, task, res, k, m,
                 held, poisoned, call, pre>>

\* scheduler.finish_execution(tx_version) for the task the thread holds
FinishCallFinishExecution(w) ==
  /\ pc[w] = "idle"
  /\ task[w].kind = "Execute"
  /\ call[w] < MaxOps
  /\ pc' = [pc EXCEPT ![w] = "fe_status"]
  /\ call' = [call EXCEPT ![w] = @ + 1]
  /\ UNCHANGED <<caller, evmVars, driverVars, schedVars, task, res, k, m,
                 held, poisoned, pre>>

FinishNext ==
  \E w \in Workers :
    \/ FinishCallNextTask(w)
    \/ FinishCallFinishExecution(w)
    \/ next_task(w)
    \/ finish_execution(w)

FinishSpec == FinishInit /\ [][FinishNext]_vars

(***************************************************************************)
(* DetectSpec: results are stored for some of three transactions, and one  *)
(* thread finishes the validation of one of them, again and again, as      *)
(* test_detect_conflicts_* and test_retry_logic_* do.                      *)
(***************************************************************************)
\* read and write sets over two addresses
DetectShapes ==
  { <<<< >>, <<"X">>>>, <<<<"Y", "X">>, << >>>>, <<<<"Y">>, <<"Y">>>> }

DetectResults ==
  [0..2 -> {None} \cup { Some(StoredResult(0, inc, shape)) :
                           inc \in 0..MaxInc, shape \in DetectShapes }]

DetectInit ==
  /\ caller = "test"
  /\ eth_precompiles = NoProvider
  /\ journal = NoJournal
  /\ block = << >>
  /\ config \in { c \in Configs : c.enable_lazy_updates }
  /\ mainpc = "test"
  /\ mv_memory = MvMemoryNew
  /\ results = << >>
  /\ final_results = << >>
  /\ lazy_changes = {}
  /\ dependencies \in {GraphIndependent, GraphChain}
  /\ tx_status = FreshStatus(3)
  /\ retry_counts = FreshCounts(3)
  /\ execution_queue = initialize_execution_queue(dependencies)
  /\ validation_queue = << >>
  /\ \E er \in DetectResults :
       execution_results = [i \in 0..2 |->
          IF IsSome(er[i]) THEN Some([er[i][1] EXCEPT !.tx_idx = i]) ELSE None]
  /\ pc = [w \in Workers |-> IF w = Tester THEN "idle" ELSE "unused"]
  /\ \E i \in 0..2 :
       /\ IsSome(execution_results[i])
       /\ task = [w \in Workers |->
            IF w = Tester
            THEN Validate(TxVersion(i, execution_results[i][1].incarnation))
            ELSE NoTask]
  /\ res = [w \in Workers |-> NoRes]
  /\ k = [w \in Workers |-> 1]
  /\ m = [w \in Workers |-> 1]
  /\ held = [w \in Workers |-> {}]
  /\ poisoned = {}
  /\ call = "none"
  /\ pre = Snapshot

DetectCall ==
  /\ task[Tester].kind = "Validate"
  /\ Enter("finish_validation", "fv_get")

DetectNext ==
  \/ DetectCall
  \/ finish_validation(Tester)
  \/ unblock_dependents(Tester)
  \/ LockFailure(Tester)

DetectSpec == DetectInit /\ [][DetectNext]_vars

(***************************************************************************)
(* MvSpec: one thread records lazy updates in a multi-version memory and   *)
(* evaluates it, as the MvMemory tests do.  caller tells which of the two  *)
(* implementations the memory is: "mv_executor" (parallel/executor.rs) or  *)
(* "mv_module" (parallel/mv_memory.rs).                                    *)
(***************************************************************************)
LazyAddrs == {"X", "Y"}
LazyTxs == {0, 1}
\* small amounts, one above i128::MAX and U256::MAX
LazyAmounts == {1, I128_MAX + 1, U256_MAX}

OpsRecorded(mv, a) ==
  IF a \in DOMAIN mv
  THEN Len(mv[a].balance_additions) + Len(mv[a].balance_subtractions)
         + Len(mv[a].nonce_increments)
  ELSE 0

MayRecord == OpsRecorded(mv_memory, "X") + OpsRecorded(mv_memory, "Y") < MaxOps

MvInit ==
  /\ caller \in {"mv_executor", "mv_module"}
  /\ eth_precompiles = NoProvider
  /\ journal = NoJournal
  /\ block = << >>
  /\ config \in { c \in Configs : c.enable_lazy_updates }
  /\ mainpc = "test"
  /\ mv_memory = MvMemoryNew
  /\ results = << >>
  /\ final_results = << >>
  /\ lazy_changes = {}
  /\ dependencies = << >>
  /\ tx_status = << >>
  /\ retry_counts = << >>
  /\ execution_queue = << >>
  /\ validation_queue = << >>
  /\ execution_results = << >>
  /\ pc = [w \in Workers |-> "unused"]
  /\ task = [w \in Workers |-> NoTask]
  /\ res = [w \in Workers |-> NoRes]
  /\ k = [w \in Workers |-> 1]
  /\ m = [w \in Workers |-> 1]
  /\ held = [w \in Workers |-> {}]
  /\ poisoned = {}
  /\ call = "new"
  /\ pre = << >>

\* a method of the memory is called: the value returned by an earlier
\* evaluation is dropped unless the call is an evaluation
MvCall(name, mv) ==
  /\ caller \in {"mv_executor", "mv_module"}
  /\ mv_memory' = mv
  /\ call' = name
  /\ UNCHANGED <<caller, evmVars, block, config, mainpc, results, final_results,
                 schedVars, threadVars, pre>>

AddLazyBalanceAddition ==
  /\ MayRecord
  /\ \E a \in LazyAddrs, amount \in LazyAmounts, t \in LazyTxs :
       MvCall("add_lazy_balance_addition",
              add_lazy_balance_addition(mv_memory, a, amount, t))
  /\ lazy_changes' = {}

AddLazyBalanceSubtraction ==
  /\ MayRecord
  /\ \E a \in LazyAddrs, amount \in LazyAmounts, t \in LazyTxs :
       MvCall("add_lazy_balance_subtraction",
              add_lazy_balance_subtraction(mv_memory, a, amount, t))
  /\ lazy_changes' = {}

AddLazyNonceIncrement ==
  /\ MayRecord
  /\ \E a \in LazyAddrs, t \in LazyTxs :
       MvCall("add_lazy_nonce_increment",
              add_lazy_nonce_increment(mv_memory, a, t))
  /\ lazy_changes' = {}

\* the base state the tests of mv_memory.rs seed
SetBaseAccountState ==
  /\ caller = "mv_module"
  /\ \E a \in LazyAddrs :
       MvCall("set_base_account_state",
              set_base_account_state(mv_memory, a, 5, 7))
  /\ lazy_changes' = {}

EvaluateLazyBalances ==
  /\ MvCall("evaluate_lazy_balances", mv_memory)
  /\ lazy_changes' = IF caller = "mv_executor"
                     THEN evaluate_lazy_balances(mv_memory)
                     ELSE mvm_evaluate_lazy_balances(mv_memory)

MvNext ==
  \/ AddLazyBalanceAddition
  \/ AddLazyBalanceSubtraction
  \/ AddLazyNonceIncrement
  \/ SetBaseAccountState
  \/ EvaluateLazyBalances

MvSpec == MvInit /\ [][MvNext]_vars

(***************************************************************************)
(* ExecSpec: the per-transaction routine called once on one transaction,   *)
(* as the unit tests of execute_transaction_parallel call it.              *)
(***************************************************************************)
\* signers, targets, values, gas limits and call data of the transactions:
\* a transfer to oneself, a creation, a call of the precompile, a value
\* above i128::MAX, gas limits below and at the intrinsic gas
ExecTxs ==
  { [signer |-> s, to |-> t, value |-> v, gas_limit |-> g,
     max_fee_per_gas |-> 1, input |-> d, access_list |-> << >>] :
      s \in {"A", NoSigner},
      t \in {Create, "A", "C", ANDE_PRECOMPILE_ADDRESS},
      v \in {0, 1, I128_MAX + 1},
      g \in {20000, 21000, 21020, 53000},
      d \in {<< >>, <<0, 1>>} }

ExecVersions == { TxVersion(i, inc) : i \in 0..1, inc \in 0..1 }

ExecInit ==
  /\ caller = "exec"
  /\ eth_precompiles = NoProvider
  /\ journal = NoJournal
  /\ block \in { <<tx>> : tx \in ExecTxs }
  /\ config \in Configs
  /\ mainpc = "test"
  /\ mv_memory = MvMemoryNew
  /\ results = << >>
  /\ final_results = << >>
  /\ lazy_changes = {}
  /\ dependencies = << >>
  /\ tx_status = << >>
  /\ retry_counts = << >>
  /\ execution_queue = << >>
  /\ validation_queue = << >>
  /\ execution_results = << >>
  /\ pc = [w \in Workers |-> "unused"]
  /\ task = [w \in Workers |-> NoTask]
  /\ res = [w \in Workers |-> NoRes]
  /\ k = [w \in Workers |-> 1]
  /\ m = [w \in Workers |-> 1]
  /\ held = [w \in Workers |-> {}]
  /\ poisoned = {}
  /\ call = "new"
  /\ pre = << >>

\* execute_transaction_parallel(tx_version, transaction, .., mv_memory):
\* the Option returned is kept in results, the version in pre
ExecCall ==
  /\ caller = "exec"
  /\ call = "new"
  /\ \E v \in ExecVersions :
       /\ results' = Some(execute_transaction_parallel(v, block[1], config))
       /\ mv_memory' = MvAfterExecute(mv_memory, v, block[1], config)
       /\ pre' = v
  /\ call' = "execute_transaction_parallel"
  /\ UNCHANGED <<caller, evmVars, block, config, mainpc, final_results, lazy_changes,
                 schedVars, threadVars>>

ExecNext == ExecCall

ExecSpec == ExecInit /\ [][ExecNext]_vars

(***************************************************************************)
(* DecideSpec: the choice between the parallel and the sequential path,    *)
(* taken by the payload builder (node/src/builder.rs) on its optional      *)
(* parallel configuration and by the executor built from that              *)
(* configuration.                                                          *)
(***************************************************************************)
\* builder.rs:342-365 : EvolvePayloadBuilder::should_use_parallel_execution
should_use_parallel_execution(parallel_config, transactions) ==
  IF ~IsSome(parallel_config) THEN FALSE
  ELSE IF parallel_config[1].force_sequential THEN FALSE
  ELSE IF Len(transactions) < parallel_config[1].min_transactions_for_parallel
  THEN FALSE
  ELSE TRUE

\* the configurations: the presets' minimum of 2 and of 3 transactions, with
\* and without force_sequential
DecideConfigs ==
  { [enable_lazy_updates |-> l, force_sequential |-> f,
     max_retries |-> max_retries,
     min_transactions_for_parallel |-> n,
     concurrency_level |-> NumWorkers] :
       l \in BOOLEAN, f \in BOOLEAN,
       n \in {min_transactions_for_parallel, min_transactions_for_parallel + 1} }

\* pre holds the builder's parallel_config: None or Some(config)
DecideInit ==
  /\ caller = "decide"
  /\ eth_precompiles = NoProvider
  /\ journal = NoJournal
  /\ block \in Blocks \cup { << >> }
  /\ config \in DecideConfigs
  /\ pre \in {None, Some(config)}
  /\ mainpc = "test"
  /\ mv_memory = MvMemoryNew
  /\ results = << >>
  /\ final_results = << >>
  /\ lazy_changes = {}
  /\ dependencies = << >>
  /\ tx_status = << >>
  /\ retry_counts = << >>
  /\ execution_queue = << >>
  /\ validation_queue = << >>
  /\ execution_results = << >>
  /\ pc = [w \in Workers |-> "unused"]
  /\ task = [w \in Workers |-> NoTask]
  /\ res = [w \in Workers |-> NoRes]
  /\ k = [w \in Workers |-> 1]
  /\ m = [w \in Workers |-> 1]
  /\ held = [w \in Workers |-> {}]
  /\ poisoned = {}
  /\ call = "new"

\* the builder decides; the executor, which exists only with a
\* configuration (builder.rs:385), decides on the same transactions
Decide ==
  /\ caller = "decide"
  /\ call = "new"
  /\ results' =
       [builder |-> should_use_parallel_execution(pre, block),
        executor |-> IF IsSome(pre)
                     THEN Some(should_use_parallel(block, pre[1]))
                     ELSE None]
  /\ call' = "should_use_parallel"
  /\ UNCHANGED <<caller, evmVars, block, config, mainpc, mv_memory, final_results,
                 lazy_changes, schedVars, threadVars, pre>>

DecideNext == Decide

DecideSpec == DecideInit /\ [][DecideNext]_vars

(***************************************************************************)
(* AndePrecompileProvider (evm_config/ande_precompile_provider.rs).        *)
(* A Result is a record with ok = TRUE and the Option<InterpreterResult>,  *)
(* or ok = FALSE and the error string.  The call input is its length in    *)
(* bytes and its three 32-byte words; an address word is <<the 12 leading  *)
(* bytes, the 20-byte address>>.                                           *)
(***************************************************************************)
ZeroAddress == "0x00"
ANDE_TOKEN_ADDRESS == ZeroAddress
ANDE_PRECOMPILE_BASE_GAS == 3000
ANDE_PRECOMPILE_PER_WORD_GAS == 100

Err(msg) == [ok |-> FALSE, error |-> msg]
Ok(x) == [ok |-> TRUE, value |-> x]

\* Precompiles::new(PrecompileSpecId::from_spec_id(spec)) : the standard set
\* of a hardfork, here by two of its addresses and, from Prague on, a third
Precompiles(spec) ==
  IF spec = "CANCUN" THEN {"0x01", "0x0a"} ELSE {"0x01", "0x0a", "0x0b"}

\* AndePrecompileProvider::new
AndePrecompileProviderNew(spec) ==
  [spec |-> spec, precompiles |-> Precompiles(spec)]

\* JournalTr::transfer : Err on a database error, Ok(Some(error)) when the
\* balance of `from` is below the value or the balance of `to` would
\* overflow, Ok(None) after moving the value
transfer(j, from, to, value) ==
  IF ~j.db_ok THEN [journal |-> j, ret |-> Err("DatabaseError")]
  ELSE IF j.balance[from] < value
  THEN [journal |-> j, ret |-> Ok(Some("OutOfFunds"))]
  ELSE IF from # to /\ j.balance[to] + value > U256_MAX
  THEN [journal |-> j, ret |-> Ok(Some("OverflowPayment"))]
  ELSE [journal |->
          [j EXCEPT !.balance =
             [a \in DOMAIN j.balance |->
                IF from = to THEN j.balance[a]
                ELSE IF a = from THEN j.balance[a] - value
                ELSE IF a = to THEN j.balance[a] + value
                ELSE j.balance[a]]],
        ret |-> Ok(None)]

\* InterpreterResult { result: Return, gas: Gas::new(gas_limit), output:
\* [0x01] } after gas.record_cost(gas_cost)
ReturnOne(gas_limit, gas_cost) ==
  [result |-> "Return", gas_remaining |-> gas_limit - gas_cost,
   output |-> <<1>>]

\* the fixed gas cost of a call: base + 3 words
GasCost == ANDE_PRECOMPILE_BASE_GAS + (ANDE_PRECOMPILE_PER_WORD_GAS * 3)

\* a variant in which a token contract "T" is configured as the only caller
CallerAuthorized_TokenOnly(caller_address) == caller_address = "T"

\* the caller validation: no caller is refused while ANDE_TOKEN_ADDRESS is
\* the zero address
CallerAuthorized(caller_address) ==
  ~(ANDE_TOKEN_ADDRESS # ZeroAddress /\ caller_address # ANDE_TOKEN_ADDRESS)

\* a variant that validates the recipient before the gas limit
ValidateCall_RecipientFirst(inputs, is_static, gas_limit) ==
  IF is_static THEN "ANDE precompile cannot be called in static context"
  ELSE IF inputs.input.len # 96 THEN "Invalid input length"
  ELSE IF inputs.input.words[2][2] = ZeroAddress THEN "Transfer to zero address"
  ELSE IF gas_limit < GasCost THEN "Out of gas"
  ELSE IF ~CallerAuthorized(inputs.caller_address) THEN "Unauthorized caller"
  ELSE "valid"

\* the validations of run_ande_precompile in the order the code makes them:
\* the error of the first that fails, "valid" when none does
ValidateCall(inputs, is_static, gas_limit) ==
  IF is_static THEN "ANDE precompile cannot be called in static context"
  ELSE IF inputs.input.len # 96 THEN "Invalid input length"
  ELSE IF gas_limit < GasCost THEN "Out of gas"
  ELSE IF ~CallerAuthorized(inputs.caller_address) THEN "Unauthorized caller"
  ELSE IF inputs.input.words[2][2] = ZeroAddress THEN "Transfer to zero address"
  ELSE "valid"

\* a variant without the early return for a value of zero
IsZeroTransfer_Never(value) == FALSE

\* value.is_zero()
IsZeroTransfer(value) == value = 0

\* AndePrecompileProvider::run_ande_precompile : the journal after the call,
\* the number of calls of journal.transfer it made, and what it returned
run_ande_precompile(j, inputs, is_static, gas_limit) ==
  LET from == inputs.input.words[1][2]
      to == inputs.input.words[2][2]
      value == inputs.input.words[3]
      t == transfer(j, from, to, value)
  IN IF ValidateCall(inputs, is_static, gas_limit) # "valid"
     THEN [journal |-> j, transfers |-> 0,
           ret |-> Err(ValidateCall(inputs, is_static, gas_limit))]
     ELSE IF IsZeroTransfer(value)
     THEN [journal |-> j, transfers |-> 0,
           ret |-> Ok(Some(ReturnOne(gas_limit, GasCost)))]
     ELSE IF t.ret = Ok(None)
     THEN [journal |-> t.journal, transfers |-> 1,
           ret |-> Ok(Some(ReturnOne(gas_limit, GasCost)))]
     ELSE IF t.ret.ok
     THEN [journal |-> t.journal, transfers |-> 1, ret |-> Err("Transfer failed")]
     ELSE [journal |-> t.journal, transfers |-> 1,
           ret |-> Err("Database error during transfer")]

\* a variant that keeps the stored identifier
set_spec_KeepsIdentifier(provider, spec) ==
  IF spec = provider.spec
  THEN [provider |-> provider, ret |-> FALSE]
  ELSE [provider |-> [provider EXCEPT !.precompiles = Precompiles(spec)],
        ret |-> TRUE]

\* PrecompileProvider::set_spec
set_spec(provider, spec) ==
  IF spec = provider.spec
  THEN [provider |-> provider, ret |-> FALSE]
  ELSE [provider |-> [spec |-> spec, precompiles |-> Precompiles(spec)],
        ret |-> TRUE]

\* PrecompileProvider::contains
contains(provider, address) ==
  address = ANDE_PRECOMPILE_ADDRESS \/ address \in provider.precompiles

\* PrecompileProvider::run : the routine the call is dispatched to
RunsRoutine(address) ==
  IF address = ANDE_PRECOMPILE_ADDRESS THEN "run_ande_precompile"
  ELSE "eth_precompiles.run"

\* EthPrecompiles::run : Ok(None) for an address outside the standard set;
\* what a standard precompile computes is not modelled
EthPrecompilesRun(provider, j, address) ==
  [journal |-> j, transfers |-> 0,
   ret |-> IF address \in provider.precompiles THEN Ok(Some("standard"))
           ELSE Ok(None)]

(***************************************************************************)
(* PrecompileSpec: a provider is created, set_spec is called any number of *)
(* times, then one call is run.                                            *)
(***************************************************************************)
SpecIds == {"CANCUN", "PRAGUE", "OSAKA"}
JournalAddrs == {ZeroAddress, "A", "C"}
CallerAddrs == {"A", "T"}
RunAddrs == {ANDE_PRECOMPILE_ADDRESS, "0x01", "0x0b", "C"}
\* gas limits just below, at and above the fixed cost
GasLimits == {3299, 3300, 5000}

Journals ==
  { [balance |-> [a \in JournalAddrs |->
                    IF a = "A" THEN x ELSE IF a = "C" THEN y ELSE 0],
     db_ok |-> d] : x \in {0, 2, U256_MAX}, y \in {0, 2, U256_MAX}, d \in BOOLEAN }

\* inputs of 95, 96 and 97 bytes
CallInputs ==
  { [len |-> n, words |-> <<<<0, f>>, <<p, t>>, v>>] :
      n \in {95, 96, 97}, f \in {"A", "C"}, p \in {0, 1}, t \in JournalAddrs,
      v \in {0, 1, U256_MAX} }

PrecompileInit ==
  /\ caller = "evm"
  /\ eth_precompiles \in { AndePrecompileProviderNew(s) : s \in SpecIds }
  /\ journal \in Journals
  /\ block = << >>
  /\ config \in { c \in Configs : c.enable_lazy_updates }
  /\ mainpc = "test"
  /\ mv_memory = MvMemoryNew
  /\ results = << >>
  /\ final_results = << >>
  /\ lazy_changes = {}
  /\ dependencies = << >>
  /\ tx_status = << >>
  /\ retry_counts = << >>
  /\ execution_queue = << >>
  /\ validation_queue = << >>
  /\ execution_results = << >>
  /\ pc = [w \in Workers |-> "unused"]
  /\ task = [w \in Workers |-> NoTask]
  /\ res = [w \in Workers |-> NoRes]
  /\ k = [w \in Workers |-> 1]
  /\ m = [w \in Workers |-> 1]
  /\ held = [w \in Workers |-> {}]
  /\ poisoned = {}
  /\ call = "new"
  /\ pre = << >>

PrecompileFrame ==
  UNCHANGED <<caller, block, config, mainpc, mv_memory, final_results,
              lazy_changes, schedVars, threadVars>>

\* set_spec(spec): pre keeps the argument and the provider it was called on
SetSpec ==
  /\ caller = "evm"
  /\ call \in {"new", "set_spec"}
  /\ \E s \in SpecIds :
       /\ eth_precompiles' = set_spec(eth_precompiles, s).provider
       /\ results' = set_spec(eth_precompiles, s).ret
       /\ pre' = [spec |-> s, eth_precompiles |-> eth_precompiles]
  /\ call' = "set_spec"
  /\ UNCHANGED journal
  /\ PrecompileFrame

\* run(context, address, inputs, is_static, gas_limit): pre keeps the
\* arguments and the journal the call started from, call the routine run
Run ==
  /\ caller = "evm"
  /\ call \in {"new", "set_spec"}
  /\ \E address \in RunAddrs, input \in CallInputs, c \in CallerAddrs,
        is_static \in BOOLEAN, gas_limit \in GasLimits :
       LET inputs == [input |-> input, caller_address |-> c]
           out == IF address = ANDE_PRECOMPILE_ADDRESS
                  THEN run_ande_precompile(journal, inputs, is_static, gas_limit)
                  ELSE EthPrecompilesRun(eth_precompiles, journal, address)
       IN /\ address # ANDE_PRECOMPILE_ADDRESS
               => (input = CHOOSE i \in CallInputs : TRUE) /\ c = "A"
                    /\ ~is_static /\ gas_limit = 5000
          /\ journal' = out.journal
          /\ results' = [ret |-> out.ret, transfers |-> out.transfers]
          /\ pre' = [address |-> address, inputs |-> inputs,
                     is_static |-> is_static, gas_limit |-> gas_limit,
                     journal |-> journal]
          /\ call' = RunsRoutine(address)
  /\ UNCHANGED eth_precompiles
  /\ PrecompileFrame

PrecompileNext == SetSpec \/ Run

PrecompileSpec == PrecompileInit /\ [][PrecompileNext]_vars

(***************************************************************************)
(* EvolvePayloadBuilder::build_payload (node/src/builder.rs).  The builder *)
(* is its three optional fields; env holds what the world answers during   *)
(* one build: the producer the consensus contract designates, the step     *)
(* that fails if one does, the transactions the block builder rejects,     *)
(* whether the attestation succeeds and whether the parallel executor      *)
(* returns.  A build gives what it returned and the calls it made, in      *)
(* order.                                                                  *)
(***************************************************************************)
\* a variant of the gate that lets every producer through
GateRejects_Never(env) == FALSE

\* builder.rs:128 : designated_producer != our_address
GateRejects(env) == env.producer = "other"

\* a variant in which a failed attestation fails the build
AfterAttest_FailsBuild(sealed_block, env) ==
  IF env.attest_ok THEN Ok(sealed_block)
  ELSE Err("Failed to attest block")

\* builder.rs:318-338, 472-493 : the result of attest_block is logged and the
\* sealed block is returned
AfterAttest(sealed_block, env) == Ok(sealed_block)

\* tx.try_clone_into_recovered()
Recoverable(tx) == tx.signer # NoSigner

\* the loop over the transactions (builder.rs:251-286, 427-443) from index i:
\* the calls made, the indices the block builder accepted, and the error
\* the loop returned with, if any
RECURSIVE BuilderLoop(_, _, _)
BuilderLoop(txs, env, i) ==
  IF i >= Len(txs) THEN [calls |-> << >>, included |-> << >>, err |-> None]
  ELSE IF ~Recoverable(TxAt(txs, i))
  THEN [calls |-> << >>, included |-> << >>,
        err |-> Some("Failed to recover transaction")]
  ELSE LET rest == BuilderLoop(txs, env, i + 1)
       IN [calls |-> << <<"execute_transaction", i>> >> \o rest.calls,
           included |-> (IF i \in env.rejected THEN << >> ELSE <<i>>)
                          \o rest.included,
           err |-> rest.err]

\* the block number and hash of the block that finish seals
SealedBlock(included) == [number |-> "n", hash |-> "h", transactions |-> included]

\* from the creation of the block builder to the return: builder.rs:237-340
\* and 411-496
BuildBlock(b, txs, env, final_latest) ==
  LET loop == BuilderLoop(txs, env, 0)
      sealed_block == SealedBlock(loop.included)
      c1 == << <<"builder_for_next_block">> >>
      c2 == c1 \o << <<"apply_pre_execution_changes">> >>
      c3 == c2 \o loop.calls
      c4 == c3 \o << <<"finish">> >>
  IN IF env.fail_at = "builder"
     THEN [ret |-> Err("builder_for_next_block"), calls |-> c1]
     ELSE IF env.fail_at = "pre_execution"
     THEN [ret |-> Err("apply_pre_execution_changes"), calls |-> c2]
     ELSE IF IsSome(loop.err)
     THEN [ret |-> Err(loop.err[1]), calls |-> c3]
     ELSE IF final_latest /\ env.fail_at = "final_latest"
     THEN [ret |-> Err("latest"), calls |-> c3]
     ELSE IF env.fail_at = "finish"
     THEN [ret |-> Err("finish"), calls |-> c4]
     ELSE IF b.attester
     THEN [ret |-> AfterAttest(sealed_block, env),
           calls |-> c4 \o << <<"attest_block", sealed_block.number,
                               sealed_block.hash>> >>]
     ELSE [ret |-> Ok(sealed_block), calls |-> c4]

\* the call that never returns
NoReturn == [ok |-> FALSE, error |-> "never returns"]

\* two transactions of the block have the same signer: the scheduler of the
\* parallel executor then has a dependency to unblock
HasDependency(txs) ==
  \E i, j \in 1..Len(txs) : i # j /\ txs[i].signer = txs[j].signer

\* builder.rs:367-496 : EvolvePayloadBuilder::build_payload_parallel.
\* execute_transactions returns Err when the analyzer fails and may not
\* return when a dependency is to be unblocked
build_payload_parallel(b, txs, env) ==
  LET c1 == << <<"execute_transactions">> >>
      rest == BuildBlock(b, txs, env, TRUE)
  IN IF ~IsSome(b.parallel_config)
     THEN [ret |-> Err("Parallel config not set"), calls |-> << >>]
     ELSE IF AnalyzeFails(txs)
     THEN [ret |-> Err("Parallel execution failed"), calls |-> c1]
     ELSE IF HasDependency(txs) /\ ~env.executor_returns
     THEN [ret |-> NoReturn, calls |-> c1]
     ELSE IF env.fail_at = "latest_again"
     THEN [ret |-> Err("latest"), calls |-> c1]
     ELSE [ret |-> rest.ret, calls |-> c1 \o rest.calls]

\* builder.rs:110-340 : EvolvePayloadBuilder::build_payload
build_payload(b, txs, env) ==
  LET gate == IF b.consensus_client THEN << <<"get_block_producer">> >>
              ELSE << >>
      mode == IF should_use_parallel_execution(b.parallel_config, txs)
              THEN build_payload_parallel(b, txs, env)
              ELSE BuildBlock(b, txs, env, FALSE)
  IN IF b.consensus_client /\ GateRejects(env)
     THEN [ret |-> Err("Not our turn"), calls |-> gate]
     ELSE IF env.fail_at \in {"validate", "latest", "header", "gas_limit"}
     THEN [ret |-> Err(env.fail_at), calls |-> gate]
     ELSE [ret |-> mode.ret, calls |-> gate \o mode.calls]

(***************************************************************************)
(* BuildSpec: one build_payload of a builder on a list of transactions.    *)
(***************************************************************************)
Builders ==
  { [consensus_client |-> g, attester |-> a, parallel_config |-> cfg] :
      g \in BOOLEAN, a \in BOOLEAN,
      cfg \in {None} \cup { Some(c) : c \in { x \in Configs : x.enable_lazy_updates } } }

FailPoints ==
  {"none", "validate", "latest", "header", "gas_limit", "latest_again",
   "builder", "pre_execution", "final_latest", "finish"}

BuildEnvs(txs) ==
  { [producer |-> p, fail_at |-> f, rejected |-> r, attest_ok |-> ao,
     executor_returns |-> er] :
      p \in {"us", "other", "error"}, f \in FailPoints,
      r \in SUBSET (0..(Len(txs) - 1)), ao \in BOOLEAN, er \in BOOLEAN }

\* pre holds the builder
BuildInit ==
  /\ caller = "node"
  /\ eth_precompiles = NoProvider
  /\ journal = NoJournal
  /\ block \in Blocks \cup { << >> }
  /\ pre \in Builders
  /\ config \in { c \in Configs : c.enable_lazy_updates }
  /\ mainpc = "test"
  /\ mv_memory = MvMemoryNew
  /\ results = << >>
  /\ final_results = << >>
  /\ lazy_changes = {}
  /\ dependencies = << >>
  /\ tx_status = << >>
  /\ retry_counts = << >>
  /\ execution_queue = << >>
  /\ validation_queue = << >>
  /\ execution_results = << >>
  /\ pc = [w \in Workers |-> "unused"]
  /\ task = [w \in Workers |-> NoTask]
  /\ res = [w \in Workers |-> NoRes]
  /\ k = [w \in Workers |-> 1]
  /\ m = [w \in Workers |-> 1]
  /\ held = [w \in Workers |-> {}]
  /\ poisoned = {}
  /\ call = "new"

\* build_payload(attributes): results keeps what the world answered, what
\* the build returned and the calls it made
BuildPayload ==
  /\ caller = "node"
  /\ call = "new"
  /\ \E env \in BuildEnvs(block) :
       results' = [env |-> env,
                   ret |-> build_payload(pre, block, env).ret,
                   calls |-> build_payload(pre, block, env).calls]
  /\ call' = "build_payload"
  /\ UNCHANGED <<caller, evmVars, block, config, mainpc, mv_memory,
                 final_results, lazy_changes, schedVars, threadVars, pre>>

BuildNext == BuildPayload

BuildSpec == BuildInit /\ [][BuildNext]_vars

(***************************************************************************)
(* Properties.                                                             *)
(***************************************************************************)
\* the method the test thread called has returned
ReturnedFrom(name) ==
  caller = "test" /\ call = name /\ pc[Tester] = "idle"

\* the result stored for the validated transaction when finish_validation
\* was called has a conflict
ConflictAtCall ==
  /\ IsSome(pre.execution_results[CurTx(Tester)])
  /\ detect_conflicts(pre.execution_results, CurTx(Tester),
                      pre.execution_results[CurTx(Tester)][1])

\* the result stored for the validated transaction when finish_validation
\* was called has no conflict
NoConflictAtCall ==
  /\ IsSome(pre.execution_results[CurTx(Tester)])
  /\ ~detect_conflicts(pre.execution_results, CurTx(Tester),
                       pre.execution_results[CurTx(Tester)][1])

AllTerminal == \A i \in TxIdxs : tx_status[i] \in {"Completed", "Failed"}

\* C1: when execute_transactions returns from the parallel path, the result
\* at every index has the gas_used, success, state_changes, read_set and
\* write_set that execute_sequential produces for the same transactions, and
\* the lazy changes evaluated from the multi-version memory are those of the
\* sequential run, whatever the interleaving of the workers.
C1_ParallelEqualsSequential ==
  mainpc = "returned_parallel" =>
    /\ DOMAIN final_results = DOMAIN SeqResults(block, config)
    /\ \A i \in DOMAIN final_results :
         LET p == final_results[i]
             s == SeqResults(block, config)[i]
         IN /\ p.gas_used = s.gas_used
            /\ p.success = s.success
            /\ p.state_changes = s.state_changes
            /\ p.read_set = s.read_set
            /\ p.write_set = s.write_set
    /\ lazy_changes = evaluate_lazy_balances(SeqMvMemory(block, config, N))

\* the parallel path has returned for two transactions that both credit the
\* precompile lazily
C1_Witness ==
  /\ mainpc = "returned_parallel"
  /\ N = 2
  /\ \A i \in 0..1 : RecordsLazily(TxAt(block, i), config)
  /\ lazy_changes # {}

\* C2: the parallel run terminates - every worker leaves its loop - and then
\* every transaction is Completed or Failed.
C2_RunTerminatesAllTerminal ==
  (mainpc = "scope") ~> ((\A w \in Workers : pc[w] = "exited") /\ AllTerminal)

\* C3: no worker waits forever for a status lock, a retry-counter lock or a
\* queue lock: no set of workers each waits for a lock that a worker of the
\* set holds, a set of one worker that waits for a lock it holds included.
C3_DeadlockFree ==
  /\ \A w \in Workers : pc[w] # "deadlocked"
  /\ ~ \E S \in (SUBSET Workers) \ {{}} :
         \A w \in S : \E u \in S : Wants(w) \in held[u]

\* C4: the retry counter of a transaction never exceeds max_retries, and
\* every incarnation that is enqueued for execution or handed out for
\* execution is at most max_retries, so that a transaction is dequeued at no
\* more than 1 + max_retries distinct incarnations.
C4_RetriesBounded ==
  caller = "test" =>
    /\ \A i \in TxIdxs : retry_counts[i] <= config.max_retries
    /\ \A q \in 1..Len(execution_queue) :
         execution_queue[q].tx_incarnation <= config.max_retries
    /\ \A w \in Workers :
         task[w].kind = "Execute" => task[w].tx_incarnation <= config.max_retries

\* a transaction is handed out for execution at incarnation max_retries
C4_Witness ==
  /\ caller = "test"
  /\ task[Tester].kind = "Execute"
  /\ task[Tester].tx_incarnation = config.max_retries
  /\ retry_counts[CurTx(Tester)] = config.max_retries

\* C5: next_task returns None only when both queues are empty.
C5_NoneOnlyWhenBothEmpty ==
  [][\A w \in Workers :
       (pc[w] = "nt_exec" /\ pc'[w] = "exited")
         => (validation_queue' = << >> /\ execution_queue' = << >>)]_vars

\* C6: when every worker of the parallel phase has exited, both queues are
\* empty and no worker holds a task.
C6_QuiescentAtReturn ==
  (mainpc \in {"scope", "returned_parallel"}
     /\ \A w \in Workers : pc[w] = "exited")
  => /\ execution_queue = << >>
     /\ validation_queue = << >>
     /\ \A w \in Workers : task[w] = NoTask

\* the parallel phase has returned for a block of two transactions
C6_Witness ==
  /\ mainpc = "returned_parallel"
  /\ N = 2
  /\ \A w \in Workers : pc[w] = "exited"

\* C7: finish_validation for a transaction whose stored result has no
\* conflict returns, and when it has returned the transaction is Completed
\* and every dependent that is Ready and whose depends_on are all Completed
\* has been appended to the execution queue at incarnation 0.
C7_NoConflictCompletesAndUnblocks ==
  (caller = "test" /\ call = "finish_validation"
     /\ pc[Tester] \notin {"fv_get", "fv_detect"} /\ NoConflictAtCall)
  => /\ pc[Tester] \notin {"deadlocked", "panicked"}
     /\ pc[Tester] = "idle" =>
          /\ tx_status[CurTx(Tester)] = "Completed"
          /\ \A kk \in 1..Len(dependencies[CurTx(Tester)].dependents) :
               LET d == dependencies[CurTx(Tester)].dependents[kk]
               IN (/\ tx_status[d] = "Ready"
                   /\ \A mm \in 1..Len(dependencies[d].depends_on) :
                        tx_status[dependencies[d].depends_on[mm]] = "Completed")
                  => \E q \in (Len(pre.execution_queue) + 1)..Len(execution_queue) :
                       execution_queue[q] = TxVersion(d, 0)

C9_FailEffect ==
  caller = "test" =>
    /\ (ReturnedFrom("finish_validation") /\ ConflictAtCall
          /\ pre.retry_counts[CurTx(Tester)] >= config.max_retries)
       => /\ tx_status = [pre.tx_status EXCEPT ![CurTx(Tester)] = "Failed"]
          /\ execution_queue = pre.execution_queue
          /\ validation_queue = pre.validation_queue
          /\ retry_counts = pre.retry_counts
          /\ execution_results = pre.execution_results
    /\ \A i \in TxIdxs :
         tx_status[i] = "Failed" => retry_counts[i] = config.max_retries

\* finish_validation has returned from failing a transaction that was Ready
C9_Witness ==
  /\ ReturnedFrom("finish_validation")
  /\ ConflictAtCall
  /\ pre.retry_counts[CurTx(Tester)] = config.max_retries
  /\ pre.tx_status[CurTx(Tester)] = "Ready"
  /\ tx_status[CurTx(Tester)] = "Failed"

\* C10: detect_conflicts answers true exactly when an earlier index has a
\* stored result whose write set shares an address with the read set of the
\* validated result and whose incarnation is higher; an equal incarnation
\* and a later index never make it answer true.
C10_DetectConflictsIff ==
  [][(pc[Tester] = "fv_detect" /\ pc'[Tester] # "fv_detect")
       => (pc'[Tester] = "fv_retry_lock"
             <=> \E j \in 0..2 :
                   /\ j < CurTx(Tester)
                   /\ IsSome(execution_results[j])
                   /\ \E a \in {"X", "Y"} :
                        /\ Contains(execution_results[j][1].write_set, a)
                        /\ Contains(res[Tester].read_set, a)
                   /\ execution_results[j][1].incarnation
                        > res[Tester].incarnation)]_vars

\* a conflict is detected for transaction 1: transaction 0 was stored at a
\* higher incarnation and writes the second address that transaction 1 read
C10_Witness ==
  /\ pc[Tester] = "fv_retry_lock"
  /\ CurTx(Tester) = 1
  /\ IsSome(execution_results[0])
  /\ execution_results[0][1].write_set = <<"X">>
  /\ execution_results[1][1].read_set = <<"Y", "X">>
  /\ execution_results[0][1].incarnation > execution_results[1][1].incarnation

\* C11: finish_validation called on a transaction that is Completed returns
\* and leaves every status, every retry counter and both queues as they
\* were at the call.
C11_RepeatedValidationNoOp ==
  (caller = "test" /\ call = "finish_validation"
     /\ pre.tx_status[CurTx(Tester)] = "Completed"
     /\ pc[Tester] \in {"idle", "deadlocked", "panicked"})
  => /\ pc[Tester] = "idle"
     /\ tx_status = pre.tx_status
     /\ retry_counts = pre.retry_counts
     /\ execution_queue = pre.execution_queue
     /\ validation_queue = pre.validation_queue

\* C12: finish_execution sets the status of its transaction to Completed and
\* appends, at incarnation 0, exactly the dependents that are Ready and
\* whose depends_on are all Completed; a transaction is enqueued or handed
\* out for execution only when each of its dependencies that was never
\* retried is Completed.
C12_FinishExecutionEnqueuesIff ==
  caller = "test" =>
    /\ ReturnedFrom("finish_execution") =>
         LET enq == SelectSeq(dependencies[CurTx(Tester)].dependents,
                      LAMBDA d :
                        /\ tx_status[d] = "Ready"
                        /\ \A mm \in 1..Len(dependencies[d].depends_on) :
                             tx_status[dependencies[d].depends_on[mm]] = "Completed")
         IN /\ tx_status = [pre.tx_status EXCEPT ![CurTx(Tester)] = "Completed"]
            /\ execution_queue =
                 pre.execution_queue \o [j \in 1..Len(enq) |-> TxVersion(enq[j], 0)]
    /\ \A d \in TxIdxs :
         ((\E q \in 1..Len(execution_queue) : execution_queue[q].tx_idx = d)
            \/ (task[Tester].kind = "Execute" /\ task[Tester].tx_idx = d))
         => \A mm \in 1..Len(dependencies[d].depends_on) :
              LET dep == dependencies[d].depends_on[mm]
              IN retry_counts[dep] = 0 => tx_status[dep] = "Completed"

\* finish_execution has returned having enqueued two dependents
C12_Witness ==
  /\ ReturnedFrom("finish_execution")
  /\ Len(execution_queue) = Len(pre.execution_queue) + 2
  /\ tx_status[CurTx(Tester)] = "Completed"

\* transaction 1 of a block of two reads an account that transaction 0
\* writes
WritesWhatNextReads ==
  /\ N = 2
  /\ \E q \in 1..Len(SeqResults(block, config)[1].read_set) :
       Contains(SeqResults(block, config)[0].write_set,
                SeqResults(block, config)[1].read_set[q])

\* C13: in a parallel run of two transactions where transaction 0 writes an
\* account that transaction 1 reads, transaction 0 is re-executed at
\* incarnation 1, and transaction 1 is retried at incarnation 1 with its
\* retry counter at 1; stated of the run that has returned.
C13_ConflictingPairRetried ==
  (mainpc = "returned_parallel" /\ WritesWhatNextReads)
  => /\ execution_results[0][1].incarnation = 1
     /\ execution_results[1][1].incarnation = 1
     /\ retry_counts[1] = 1

\* what the parallel run does instead of C13: in every state of every run no
\* retry is counted and every stored result is of incarnation 0
C13_NoRetryInAnyRun ==
  (caller = "driver" /\ mainpc # "start")
  => \A i \in TxIdxs :
       /\ retry_counts[i] = 0
       /\ IsSome(execution_results[i]) => execution_results[i][1].incarnation = 0

\* the change the memory's implementation emits for one account
LazyChangeOf(a, ls) ==
  IF caller = "mv_executor" THEN LazyChange(a, ls) ELSE MvmLazyChange(a, ls)

Permuted(list, p) == [i \in 1..Len(list) |-> list[p[i]]]

IsPrefix(s1, s2) == Len(s1) <= Len(s2) /\ SubSeq(s2, 1, Len(s1)) = s1

\* C14: for every lazy account, every permutation of its recorded additions
\* and of its recorded subtractions evaluates to the same balance_change;
\* and a step that records an update keeps every entry recorded before it
\* and adds exactly one.
C14_PermutationInvariant ==
  /\ [](\A a \in DOMAIN mv_memory :
         \A p \in Permutations(1..Len(mv_memory[a].balance_additions)),
            q \in Permutations(1..Len(mv_memory[a].balance_subtractions)) :
           LazyChangeOf(a, [mv_memory[a] EXCEPT
               !.balance_additions = Permuted(@, p),
               !.balance_subtractions = Permuted(@, q)]).balance_change
             = LazyChangeOf(a, mv_memory[a]).balance_change)
  /\ [][(call' \in {"add_lazy_balance_addition", "add_lazy_balance_subtraction",
                    "add_lazy_nonce_increment"})
        => /\ \A a \in DOMAIN mv_memory :
                /\ a \in DOMAIN mv_memory'
                /\ IsPrefix(mv_memory[a].balance_additions,
                            mv_memory'[a].balance_additions)
                /\ IsPrefix(mv_memory[a].balance_subtractions,
                            mv_memory'[a].balance_subtractions)
                /\ IsPrefix(mv_memory[a].nonce_increments,
                            mv_memory'[a].nonce_increments)
           /\ OpsRecorded(mv_memory', "X") + OpsRecorded(mv_memory', "Y")
                = OpsRecorded(mv_memory, "X") + OpsRecorded(mv_memory, "Y") + 1]_vars

\* an account with two additions of different amounts has been evaluated
C14_Witness ==
  /\ caller = "mv_executor"
  /\ call = "evaluate_lazy_balances"
  /\ \E a \in DOMAIN mv_memory :
       /\ Len(mv_memory[a].balance_additions) = 2
       /\ mv_memory[a].balance_additions[1][2] # mv_memory[a].balance_additions[2][2]

\* the sum of the amounts of a list, over the integers
RECURSIVE PlainSum(_)
PlainSum(list) ==
  IF list = << >> THEN 0 ELSE Head(list)[2] + PlainSum(Tail(list))

\* the signed net sum of an account's additions and subtractions
NetSum(ls) == PlainSum(ls.balance_additions) - PlainSum(ls.balance_subtractions)

\* C15: when the signed net sum of an account's additions and subtractions
\* is outside the signed 128-bit range, the emitted balance_change is
\* i128::MAX when the sum is too large and -i128::MAX when it is too small,
\* in both implementations of the memory.
C15_SaturatesAtI128 ==
  (caller \in {"mv_executor", "mv_module"} /\ call = "evaluate_lazy_balances")
  => \A c \in lazy_changes :
       /\ NetSum(mv_memory[c.address]) > I128_MAX
            => c.balance_change = I128_MAX
       /\ NetSum(mv_memory[c.address]) < -I128_MAX - 1
            => c.balance_change = -I128_MAX

\* C16: whatever lazy operations were called, each list of a lazy account
\* holds at most one entry per tx_idx.
C16_OneEntryPerTx ==
  caller \in {"mv_executor", "mv_module"} =>
    \A a \in DOMAIN mv_memory :
      /\ \A i, j \in 1..Len(mv_memory[a].balance_additions) :
           mv_memory[a].balance_additions[i][1] = mv_memory[a].balance_additions[j][1]
             => i = j
      /\ \A i, j \in 1..Len(mv_memory[a].balance_subtractions) :
           mv_memory[a].balance_subtractions[i][1] = mv_memory[a].balance_subtractions[j][1]
             => i = j
      /\ \A i, j \in 1..Len(mv_memory[a].nonce_increments) :
           mv_memory[a].nonce_increments[i] = mv_memory[a].nonce_increments[j]
             => i = j

\* exactly one change is held for every lazy account and none for any other
OneChangePerAccount ==
  /\ \A a \in DOMAIN mv_memory :
       Cardinality({ c \in lazy_changes : c.address = a }) = 1
  /\ \A c \in lazy_changes : c.address \in DOMAIN mv_memory

\* the nonce_change of a change is base_nonce + the number of increments
\* when at least one increment was recorded, and absent otherwise
NonceChangeRule(c) ==
  LET ls == mv_memory[c.address]
  IN IF Len(ls.nonce_increments) >= 1
     THEN c.nonce_change = Some(ls.base_nonce + Len(ls.nonce_increments))
     ELSE c.nonce_change = None

\* C17 as stated: after an evaluation by the memory of executor.rs there is
\* exactly one change per lazy account, its balance_change is the signed
\* value (sum of additions - sum of subtractions) and its nonce_change
\* follows the nonce rule.
C17_SignedSumExactly ==
  (caller = "mv_executor" /\ call = "evaluate_lazy_balances")
  => /\ OneChangePerAccount
     /\ \A c \in lazy_changes :
          /\ c.balance_change = NetSum(mv_memory[c.address])
          /\ NonceChangeRule(c)

\* C17 amended: after an evaluation by the memory of executor.rs there is
\* exactly one change per lazy account; with each total taken as at most
\* U256::MAX, its balance_change is the signed difference of the totals when
\* that lies within -i128::MAX..i128::MAX (negative when the subtractions
\* exceed the additions), i128::MAX when it is larger, and at most
\* -i128::MAX when it is smaller; its nonce_change follows the nonce rule;
\* evaluating leaves the memory as it was and evaluating the same memory
\* again gives the changes already held.
C17_ClampedSignedSum ==
  /\ []((caller = "mv_executor" /\ call = "evaluate_lazy_balances")
        => /\ OneChangePerAccount
           /\ \A c \in lazy_changes :
                LET ls == mv_memory[c.address]
                    net == Min(PlainSum(ls.balance_additions), U256_MAX)
                             - Min(PlainSum(ls.balance_subtractions), U256_MAX)
                IN /\ (net <= I128_MAX /\ net >= -I128_MAX)
                        => c.balance_change = net
                   /\ net > I128_MAX => c.balance_change = I128_MAX
                   /\ net < -I128_MAX => c.balance_change <= -I128_MAX
                   /\ net < 0 => c.balance_change < 0
                   /\ NonceChangeRule(c)
           /\ lazy_changes = evaluate_lazy_balances(mv_memory))
  /\ [][(caller = "mv_executor" /\ call' = "evaluate_lazy_balances")
        => /\ mv_memory' = mv_memory
           /\ (call = "evaluate_lazy_balances" => lazy_changes' = lazy_changes)]_vars

\* an account whose only balance update is a subtraction, with one nonce
\* increment, has been evaluated to a negative change and a new nonce
C17_Witness ==
  /\ caller = "mv_executor"
  /\ call = "evaluate_lazy_balances"
  /\ \E c \in lazy_changes :
       /\ Len(mv_memory[c.address].balance_subtractions) = 1
       /\ Len(mv_memory[c.address].nonce_increments) = 1
       /\ c.balance_change = -1
       /\ c.nonce_change = Some(1)

\* the three lists of a lazy record
ListsOf(ls) ==
  <<ls.balance_additions, ls.balance_subtractions, ls.nonce_increments>>

\* C18: in mv_memory.rs a call of set_base_account_state, wherever it falls
\* among the lazy operations, keeps every account and leaves the additions,
\* subtractions and nonce increments already recorded as they were; and an
\* account that was seeded and has no lazy operation evaluates to
\* balance_change = 0 and no nonce change.
C18_SetBaseKeepsEntries ==
  /\ [][(caller = "mv_module" /\ call' = "set_base_account_state")
        => \A a \in DOMAIN mv_memory :
             /\ a \in DOMAIN mv_memory'
             /\ ListsOf(mv_memory'[a]) = ListsOf(mv_memory[a])]_vars
  /\ []((caller = "mv_module" /\ call = "evaluate_lazy_balances")
        => \A a \in DOMAIN mv_memory :
             ListsOf(mv_memory[a]) = <<<< >>, << >>, << >>>>
               => /\ [address |-> a, balance_change |-> 0, nonce_change |-> None]
                       \in lazy_changes
                  /\ \A c \in lazy_changes :
                       c.address = a => (c.balance_change = 0 /\ c.nonce_change = None))

\* X was seeded after an addition had been recorded for it and still holds
\* it, Y was only seeded, and the evaluation gave Y a change of 0
C18_Witness ==
  /\ caller = "mv_module"
  /\ call = "evaluate_lazy_balances"
  /\ DOMAIN mv_memory = {"X", "Y"}
  /\ mv_memory["X"].base_balance = 5
  /\ Len(mv_memory["X"].balance_additions) = 1
  /\ mv_memory["Y"].base_balance = 5
  /\ mv_memory["Y"].base_nonce = 7
  /\ ListsOf(mv_memory["Y"]) = <<<< >>, << >>, << >>>>
  /\ [address |-> "Y", balance_change |-> 0, nonce_change |-> None] \in lazy_changes

\* C19: when execute_transactions has returned, for every successful
\* transaction that sent a non-zero value to the precompile with lazy
\* updates enabled, the returned results hold a balance credit of the
\* recipient that covers the value sent.
C19_LazyCreditReturned ==
  mainpc \in {"returned_parallel", "returned_sequential"} =>
    \A i \in DOMAIN final_results :
      (final_results[i].success /\ RecordsLazily(TxAt(block, i), config))
        => \E j \in DOMAIN final_results :
             LET sc == final_results[j].state_changes
                 to == TxAt(block, i).to
             IN /\ to \in DOMAIN sc
                /\ IsSome(sc[to].balance_change)
                /\ sc[to].balance_change[1] >= TxAt(block, i).value

\* the transactions of the block that succeeded, by index
Successful == { i \in DOMAIN final_results : final_results[i].success }

\* the additions recorded in the multi-version memory, over all accounts
RECURSIVE AdditionsIn(_, _)
AdditionsIn(mv, as) ==
  IF as = {} THEN 0
  ELSE LET a == CHOOSE x \in as : TRUE
       IN Len(mv[a].balance_additions) + AdditionsIn(mv, as \ {a})

\* C20: when execute_transactions has returned with lazy updates enabled for
\* a block whose signers are distinct, every successful transaction has
\* recorded one lazy addition for the fee recipient: the additions held by
\* the multi-version memory are those credited to the precompile and one
\* more per successful transaction, and the evaluation emitted a change
\* whenever a transaction succeeded.
C20_FeeRecipientCredited ==
  (/\ mainpc \in {"returned_parallel", "returned_sequential"}
   /\ config.enable_lazy_updates
   /\ \A i, j \in 1..Len(block) : block[i].signer = block[j].signer => i = j)
  => /\ AdditionsIn(mv_memory, DOMAIN mv_memory)
          = Cardinality(Successful)
            + Cardinality({ i \in Successful : RecordsLazily(TxAt(block, i), config) })
     /\ Successful # {} => lazy_changes # {}

\* the per-transaction routine has returned in ExecSpec
Executed == caller = "exec" /\ call = "execute_transaction_parallel"

\* C21: a successful transaction with a target and a non-zero value records
\* its credit exactly once: with the precompile as target and lazy updates
\* enabled the memory holds the one addition (target, value, tx_idx) and
\* state_changes has no entry for the target; otherwise state_changes has a
\* positive balance change for the target and the memory holds nothing.  A
\* successful transaction of value zero leaves the memory empty and gives no
\* account a positive balance change.
C21_CreditRecordedOnce ==
  (Executed /\ IsSome(results) /\ results[1].success) =>
    LET tx == block[1]
        sc == results[1].state_changes
    IN /\ (tx.to # Create /\ tx.value # 0) =>
            IF tx.to = ANDE_PRECOMPILE_ADDRESS /\ config.enable_lazy_updates
            THEN /\ DOMAIN mv_memory = {tx.to}
                 /\ mv_memory[tx.to].balance_additions
                      = << <<pre.tx_idx, tx.value>> >>
                 /\ mv_memory[tx.to].balance_subtractions = << >>
                 /\ tx.to \notin DOMAIN sc
            ELSE /\ tx.to \in DOMAIN sc
                 /\ IsSome(sc[tx.to].balance_change)
                 /\ sc[tx.to].balance_change[1] > 0
                 /\ mv_memory = MvMemoryNew
       /\ tx.value = 0 =>
            /\ mv_memory = MvMemoryNew
            /\ \A a \in DOMAIN sc :
                 ~(IsSome(sc[a].balance_change) /\ sc[a].balance_change[1] > 0)

\* a call of the precompile with value 1 was executed with lazy updates
\* enabled and its addition is in the memory
C21_Witness ==
  /\ Executed
  /\ results[1].success
  /\ config.enable_lazy_updates
  /\ block[1].to = ANDE_PRECOMPILE_ADDRESS
  /\ block[1].value = 1
  /\ ANDE_PRECOMPILE_ADDRESS \in DOMAIN mv_memory

\* the addresses a sequence lists
Elems(s) == { s[i] : i \in 1..Len(s) }

\* C22: a successful result has read_set = write_set, listing the sender and,
\* when the transaction has a target and a non-zero value, the target, each
\* address once; a transfer to oneself lists the sender alone and a
\* precompile target credited lazily is listed.
C22_ReadWriteSets ==
  (Executed /\ IsSome(results) /\ results[1].success) =>
    LET tx == block[1]
        r == results[1]
        expected == {tx.signer}
                      \cup (IF tx.to # Create /\ tx.value # 0 THEN {tx.to} ELSE {})
    IN /\ Elems(r.read_set) = expected
       /\ Elems(r.write_set) = expected
       /\ Len(r.read_set) = Cardinality(expected)
       /\ Len(r.write_set) = Cardinality(expected)
       /\ (tx.to = tx.signer) => (r.read_set = <<tx.signer>> /\ r.write_set = <<tx.signer>>)
       /\ RecordsLazily(tx, config) =>
            (Contains(r.read_set, tx.to) /\ Contains(r.write_set, tx.to))

\* a transfer of value 1 from A to A has been executed
C22_Witness ==
  /\ Executed
  /\ results[1].success
  /\ block[1].signer = "A"
  /\ block[1].to = "A"
  /\ block[1].value = 1
  /\ results[1].read_set = <<"A">>

\* C23: when the signer cannot be recovered or the gas limit is below the
\* intrinsic gas, the per-transaction routine returns a result - not None -
\* with success = false, an error message, gas_used = 0, empty
\* state_changes, read_set and write_set, the index and the incarnation it
\* was called with, and the multi-version memory is as it was.
C23_FailureResult ==
  (Executed /\ (\/ block[1].signer = NoSigner
                \/ block[1].gas_limit < calculate_intrinsic_gas(block[1])))
  => /\ IsSome(results)
     /\ results[1].success = FALSE
     /\ results[1].error \in {"Failed to recover signer", "Intrinsic gas too low"}
     /\ (block[1].signer # NoSigner => results[1].error = "Intrinsic gas too low")
     /\ results[1].gas_used = 0
     /\ DOMAIN results[1].state_changes = {}
     /\ results[1].read_set = << >>
     /\ results[1].write_set = << >>
     /\ results[1].tx_idx = pre.tx_idx
     /\ results[1].incarnation = pre.tx_incarnation
     /\ mv_memory = MvMemoryNew

\* a call of the precompile with value 1 and a gas limit below the intrinsic
\* gas was executed at incarnation 1 with lazy updates enabled
C23_Witness ==
  /\ Executed
  /\ block[1].signer = "A"
  /\ block[1].to = ANDE_PRECOMPILE_ADDRESS
  /\ block[1].value = 1
  /\ block[1].gas_limit = 20000
  /\ config.enable_lazy_updates
  /\ pre.tx_incarnation = 1
  /\ results[1].error = "Intrinsic gas too low"

\* C24: the builder selects the parallel path exactly when it has a parallel
\* configuration, force_sequential is false and the transactions number at
\* least min_transactions_for_parallel - so a block of one transaction less
\* than the minimum runs sequentially and one of exactly the minimum runs in
\* parallel - and the executor built from that configuration decides alike.
C24_ParallelIff ==
  (caller = "decide" /\ call = "should_use_parallel") =>
    /\ results.builder <=>
         /\ IsSome(pre)
         /\ ~pre[1].force_sequential
         /\ Len(block) >= pre[1].min_transactions_for_parallel
    /\ IsSome(pre) =>
         /\ results.executor = Some(results.builder)
         /\ Len(block) = pre[1].min_transactions_for_parallel - 1
              => results.executor = Some(FALSE)
         /\ (Len(block) = pre[1].min_transactions_for_parallel
               /\ ~pre[1].force_sequential)
              => results.executor = Some(TRUE)

\* a block of exactly the minimum number of transactions was given the
\* parallel path by both
C24_Witness ==
  /\ caller = "decide"
  /\ call = "should_use_parallel"
  /\ IsSome(pre)
  /\ Len(block) = pre[1].min_transactions_for_parallel
  /\ results.builder
  /\ results.executor = Some(TRUE)

\* C25: in the records the analyzer gave the driver, i is in depends_on(j)
\* exactly when j is in dependents(i); depends_on(j) holds only indices
\* below j and dependents(i) only indices above i; and i is in depends_on(j)
\* exactly when i < j and the two transactions have the same signer.
C25_DependencyRecords ==
  (caller = "driver" /\ mainpc \in {"scope", "returned_parallel"}) =>
    /\ DOMAIN dependencies = 0..(N - 1)
    /\ \A i, j \in DOMAIN dependencies :
         /\ Contains(dependencies[j].depends_on, i)
              <=> Contains(dependencies[i].dependents, j)
         /\ Contains(dependencies[j].depends_on, i) => i < j
         /\ Contains(dependencies[i].dependents, j) => j > i
         /\ Contains(dependencies[j].depends_on, i)
              <=> (i < j /\ TxAt(block, i).signer = TxAt(block, j).signer)

\* the analyzer has run on two transactions of one signer
C25_Witness ==
  /\ caller = "driver"
  /\ mainpc = "scope"
  /\ N = 2
  /\ block[1].signer = block[2].signer
  /\ dependencies[1].depends_on = <<0>>
  /\ dependencies[0].dependents = <<1>>

\* C26: when a block selected for the parallel path holds a transaction
\* whose signer the analyzer cannot recover, execute_transactions ends on
\* the sequential path with one result per transaction, the unrecoverable
\* ones marked failed.
C26_FallsBackToSequential ==
  (/\ caller = "driver"
   /\ mainpc # "start"
   /\ should_use_parallel(block, config)
   /\ AnalyzeFails(block))
  => /\ mainpc = "returned_sequential"
     /\ DOMAIN final_results = 0..(N - 1)
     /\ \A i \in 0..(N - 1) :
          TxAt(block, i).signer = NoSigner => ~final_results[i].success

\* a call of the duality precompile has returned in PrecompileSpec
RanAnde == caller = "evm" /\ call = "run_ande_precompile"

\* the recipient the call input names
RecipientOf(inputs) == inputs.input.words[2][2]

\* C27: the duality precompile rejects a static call; else an input that is
\* not 96 bytes long (95 and 97 included); else a gas limit below 3300; else
\* a zero recipient - each with its own error, the earlier one winning - and
\* in each of these failures journal.transfer is not called and the journal
\* is as it was.
C27_RejectionOrder ==
  RanAnde =>
    /\ pre.is_static
         => results.ret = Err("ANDE precompile cannot be called in static context")
    /\ (~pre.is_static /\ pre.inputs.input.len # 96)
         => results.ret = Err("Invalid input length")
    /\ (~pre.is_static /\ pre.inputs.input.len = 96 /\ pre.gas_limit < 3300)
         => results.ret = Err("Out of gas")
    /\ (~pre.is_static /\ pre.inputs.input.len = 96 /\ pre.gas_limit >= 3300
          /\ RecipientOf(pre.inputs) = ZeroAddress)
         => results.ret = Err("Transfer to zero address")
    /\ (\/ pre.is_static
        \/ pre.inputs.input.len # 96
        \/ pre.gas_limit < 3300
        \/ RecipientOf(pre.inputs) = ZeroAddress)
         => /\ ~results.ret.ok
            /\ results.transfers = 0
            /\ journal = pre.journal

\* a non-static call of 96 bytes with a gas limit of 3299 and a zero
\* recipient was rejected as out of gas
C27_Witness ==
  /\ RanAnde
  /\ ~pre.is_static
  /\ pre.inputs.input.len = 96
  /\ pre.gas_limit = 3299
  /\ RecipientOf(pre.inputs) = ZeroAddress
  /\ pre.inputs.input.words[3] = 1
  /\ results.ret = Err("Out of gas")

\* C28: a non-static call of 96 bytes with enough gas, a non-zero recipient
\* and value 0 succeeds with the single output byte 0x01 and gas_limit - 3300
\* gas remaining, without calling the journal: the journal after the call is
\* the journal before it.
C28_ZeroValueNoJournalCall ==
  (/\ RanAnde
   /\ ~pre.is_static
   /\ pre.inputs.input.len = 96
   /\ pre.gas_limit >= 3300
   /\ RecipientOf(pre.inputs) # ZeroAddress
   /\ pre.inputs.input.words[3] = 0)
  => /\ results.ret.ok
     /\ IsSome(results.ret.value)
     /\ results.ret.value[1].result = "Return"
     /\ results.ret.value[1].output = <<1>>
     /\ results.ret.value[1].gas_remaining = pre.gas_limit - 3300
     /\ results.transfers = 0
     /\ journal = pre.journal

\* a valid call with value 0 and a gas limit of 5000 has succeeded on a
\* journal whose database fails every access
C28_Witness ==
  /\ RanAnde
  /\ ~pre.is_static
  /\ pre.inputs.input.len = 96
  /\ pre.gas_limit = 5000
  /\ RecipientOf(pre.inputs) = "C"
  /\ pre.inputs.input.words[3] = 0
  /\ ~pre.journal.db_ok
  /\ results.ret.ok
  /\ results.ret.value[1].gas_remaining = 1700

\* what journal.transfer gives for the parameters the call input names, on
\* the journal the call started from
TransferAtCall ==
  transfer(pre.journal, pre.inputs.input.words[1][2],
           pre.inputs.input.words[2][2], pre.inputs.input.words[3])

\* the call succeeded with the single output byte 0x01
SucceededWithOne ==
  /\ results.ret.ok
  /\ IsSome(results.ret.value)
  /\ results.ret.value[1].output = <<1>>

\* the call run from the same journal with the same input, gas limit and
\* static flag by any caller returns what this call returned and leaves the
\* journal this call left
SameForEveryCaller ==
  \A c \in CallerAddrs :
    LET again == run_ande_precompile(pre.journal,
                   [pre.inputs EXCEPT !.caller_address = c],
                   pre.is_static, pre.gas_limit)
    IN /\ again.ret = results.ret
       /\ again.journal = journal

C30_SetSpec ==
  caller = "evm" =>
    /\ contains(eth_precompiles, ANDE_PRECOMPILE_ADDRESS)
    /\ call = "set_spec" =>
         /\ results = (pre.spec # pre.eth_precompiles.spec)
         /\ results => /\ eth_precompiles.spec = pre.spec
                       /\ eth_precompiles.precompiles = Precompiles(pre.spec)
         /\ ~results => eth_precompiles = pre.eth_precompiles
    /\ call \in {"run_ande_precompile", "eth_precompiles.run"} =>
         (call = "run_ande_precompile" <=> pre.address = ANDE_PRECOMPILE_ADDRESS)

\* set_spec(PRAGUE) on a provider created for CANCUN returned true and the
\* provider now holds PRAGUE and its standard set
C30_Witness ==
  /\ caller = "evm"
  /\ call = "set_spec"
  /\ pre.eth_precompiles.spec = "CANCUN"
  /\ pre.spec = "PRAGUE"
  /\ results = TRUE
  /\ eth_precompiles = AndePrecompileProviderNew("PRAGUE")

(***************************************************************************)
(* Properties of build_payload (BuildSpec).                                *)
(***************************************************************************)
Built == call = "build_payload"

\* the calls of a build with the given name
CallsNamed(name) ==
  { i \in 1..Len(results.calls) : results.calls[i][1] = name }

\* C31: when a consensus client is configured and the designated producer is
\* not this node, build_payload returns an error and has called neither the
\* parallel executor, nor the block builder, nor the attester: the query of
\* the producer is the only call it made.
C31_NotOurTurn ==
  (Built /\ pre.consensus_client /\ results.env.producer = "other")
    => /\ results.ret = Err("Not our turn")
       /\ results.calls = << <<"get_block_producer">> >>

C31_Witness ==
  /\ Built
  /\ pre.consensus_client /\ pre.attester /\ IsSome(pre.parallel_config)
  /\ results.env.producer = "other"
  /\ results.env.fail_at = "none"
  /\ Len(block) = MaxTx
  /\ ~results.ret.ok

\* C32: in both modes, with an attester configured, a build that returns a
\* sealed block has called attest_block exactly once, as its last call and
\* right after finish, with the number and the hash of the block it returns;
\* a failed attestation does not make the build fail; and a build that does
\* not return a block has never called attest_block.
C32_AttestOncePerBuild ==
  (Built /\ pre.attester)
    => LET calls == results.calls
           n == Len(calls)
       IN /\ results.ret.ok
              => /\ CallsNamed("attest_block") = {n}
                 /\ CallsNamed("finish") = {n - 1}
                 /\ calls[n] = <<"attest_block", results.ret.value.number,
                                 results.ret.value.hash>>
          /\ ~results.ret.ok => CallsNamed("attest_block") = {}
          /\ (CallsNamed("finish") # {} /\ results.env.fail_at # "finish")
               => results.ret.ok

\* a parallel-mode build whose attestation fails and which returns its block
C32_Witness ==
  /\ Built
  /\ pre.attester
  /\ CallsNamed("execute_transactions") # {}
  /\ ~results.env.attest_ok
  /\ results.ret.ok
  /\ CallsNamed("attest_block") # {}

\* C33: a transaction whose signer cannot be recovered, or which the block
\* builder rejects, does not abort build_payload: when it is this node's
\* turn and no call of the environment fails, the build returns a sealed
\* block and has handed every transaction to the block builder or skipped
\* it, in index order.
C33_InvalidTxSkipped ==
  (/\ Built
   /\ ~(pre.consensus_client /\ results.env.producer = "other")
   /\ results.env.fail_at = "none"
   /\ results.ret # NoReturn)
    => results.ret.ok

(***************************************************************************)
(* Lock discipline of the scheduler.                                       *)
(***************************************************************************)
\* the thread is about to push a task onto the execution queue
AtPush(w) == pc[w] \in {"fv_retry_push", "ub_push", "fe_push"}

\* the thread is about to take a per-transaction status lock
AtStatusLock(w) == Wants(w)[1] = "status"

\* C34: a thread that pushes a task onto the execution queue holds no
\* per-transaction status lock and no retry-counter lock, and a thread that
\* takes a status lock holds no queue lock.
C34_LockDiscipline ==
  \A w \in Workers :
    /\ AtPush(w) => \A l \in held[w] : l[1] \notin {"status", "retry"}
    /\ AtStatusLock(w) => held[w] \cap {ExecQLock, ValQLock} = {}

\* C35: a worker of the parallel driver has left its loop only when all work
\* is done: no other worker then holds a task it was handed and has not
\* finished, and both queues are empty.
C35_NoPrematureExit ==
  \A w \in Workers :
    (caller = "driver" /\ pc[w] = "exited")
      => /\ \A u \in Workers \ {w} : task[u] = NoTask
         /\ execution_queue = << >>
         /\ validation_queue = << >>

(***************************************************************************)
(* The fresh scheduler (SchedSpec).                                        *)
(***************************************************************************)
\* the transactions without dependencies
Unblocked == { i \in TxIdxs : dependencies[i].depends_on = << >> }

\* nothing but next_task has changed the scheduler since it was constructed
OnlyNextTask ==
  /\ call \in {"none", "next_task"}
  /\ \A i \in TxIdxs : /\ tx_status[i] = "Ready"
                       /\ retry_counts[i] = 0
                       /\ execution_results[i] = None
  /\ validation_queue = << >>
  /\ call = "next_task" => pre.validation_queue = << >>

\* the number of tasks handed out so far
HandedOut == Cardinality(Unblocked) - Len(execution_queue)

\* the q-th transaction without dependencies, in ascending index order
NthUnblocked(q) ==
  CHOOSE i \in Unblocked : Cardinality({ j \in Unblocked : j < i }) = q - 1

\* C36: a newly constructed scheduler has every transaction Ready, every
\* retry counter 0, an empty validation queue and an execution queue that
\* holds, in ascending index order and at incarnation 0, exactly the
\* transactions whose depends_on is empty; successive next_task calls hand
\* these out as Execute tasks in that order and then return None.
C36_FreshScheduler ==
  /\ call = "none"
       => /\ \A i \in TxIdxs : tx_status[i] = "Ready" /\ retry_counts[i] = 0
          /\ validation_queue = << >>
          /\ Len(execution_queue) = Cardinality(Unblocked)
          /\ \A j \in 1..Len(execution_queue) :
               execution_queue[j] = TxVersion(NthUnblocked(j), 0)
  /\ (caller = "test" /\ OnlyNextTask /\ call = "next_task"
        /\ pc[Tester] = "idle")
       => /\ \A j \in 1..Len(execution_queue) :
               execution_queue[j] = TxVersion(NthUnblocked(HandedOut + j), 0)
          /\ IF pre.execution_queue = << >>
             THEN task[Tester] = NoTask
             ELSE task[Tester] = Execute(TxVersion(NthUnblocked(HandedOut), 0))

\* both arms of the diamond have been handed out, in order, and the third
\* call returned None
C36_Witness ==
  /\ caller = "test" /\ OnlyNextTask /\ call = "next_task"
  /\ pc[Tester] = "idle"
  /\ dependencies = GraphJoin
  /\ pre.execution_queue = << >>
  /\ execution_queue = << >>
  /\ task[Tester] = NoTask

(***************************************************************************)
(* Dependencies in a driver run (Spec).                                    *)
(***************************************************************************)
\* the worker holds a task it was handed and has not finished
InFlight(w) == task[w] # NoTask

\* C37: in a run of the parallel driver a worker holds an Execute task for a
\* transaction with dependencies only when every transaction it depends on
\* is Completed, and two workers never hold tasks for two different
\* transactions of the same signer.
C37_DependentsWaitForDependencies ==
  mainpc = "scope"
    => /\ \A w \in Workers :
            task[w].kind = "Execute"
              => \A j \in 1..Len(dependencies[CurTx(w)].depends_on) :
                   tx_status[dependencies[CurTx(w)].depends_on[j]] = "Completed"
       /\ \A w, u \in Workers :
            (InFlight(w) /\ InFlight(u) /\ CurTx(w) # CurTx(u))
              => TxAt(block, CurTx(w)).signer # TxAt(block, CurTx(u)).signer

\* a transaction is in flight while a later transaction of its signer waits
\* for it, held by no worker and in no queue
C37_Witness ==
  /\ mainpc = "scope"
  /\ N = 2
  /\ TxAt(block, 0).signer = TxAt(block, 1).signer
  /\ dependencies[1].depends_on = <<0>>
  /\ tx_status[0] # "Completed"
  /\ \E w \in Workers : task[w].kind = "Execute" /\ CurTx(w) = 0
  /\ \A w \in Workers : InFlight(w) => CurTx(w) = 0
  /\ \A j \in 1..Len(execution_queue) : execution_queue[j].tx_idx # 1

(***************************************************************************)
(* Incarnation-0 tasks (FinishSpec).                                       *)
(***************************************************************************)
\* how often the execution queue holds transaction i at incarnation 0
QueuedAtZero(i) ==
  Cardinality({ j \in 1..Len(execution_queue) :
                  execution_queue[j] = TxVersion(i, 0) })

\* C38: no transaction is enqueued for execution at incarnation 0 twice:
\* whatever the threads' finish_execution calls and their interleaving, the
\* execution queue never holds two incarnation-0 tasks of one transaction,
\* nor one for a transaction a thread already holds the Execute task of.
C38_EnqueuedOnceAtZero ==
  \A i \in TxIdxs :
    /\ QueuedAtZero(i) <= 1
    /\ (\E w \in Workers : task[w] = Execute(TxVersion(i, 0)))
         => QueuedAtZero(i) = 0

\* C39: in a run of the parallel driver, which starts from a fresh
\* scheduler, no conflict is ever detected: no worker is ever in the
\* conflict branch of finish_validation, every queued task, every held task
\* and every stored result is of incarnation 0, every retry counter is 0 and
\* no transaction is Failed.
C39_NoConflictInDriverRun ==
  (caller = "driver" /\ mainpc \in {"scope", "returned_parallel", "panicked"})
    => /\ \A w \in Workers :
            /\ pc[w] \notin {"fv_retry_lock", "fv_retry_push",
                             "fv_retry_status", "fv_fail_status"}
            /\ task[w].tx_incarnation = 0
       /\ \A j \in 1..Len(execution_queue) : execution_queue[j].tx_incarnation = 0
       /\ \A j \in 1..Len(validation_queue) : validation_queue[j].tx_incarnation = 0
       /\ \A i \in TxIdxs :
            /\ retry_counts[i] = 0
            /\ tx_status[i] # "Failed"
            /\ IsSome(execution_results[i])
                 => execution_results[i][1].incarnation = 0
            /\ IsSome(results[i]) => results[i][1].incarnation = 0

\* a run has returned in which transaction 1 read what transaction 0 wrote
\* and both were validated
C39_Witness ==
  /\ caller = "driver"
  /\ mainpc = "returned_parallel"
  /\ WritesWhatNextReads
  /\ \A i \in TxIdxs :
       /\ tx_status[i] = "Completed"
       /\ IsSome(execution_results[i])
       /\ retry_counts[i] = 0

\* C40: for every successful result of the routine, state_changes[sender]
\* holds the sender's gas debit, the negated gas_limit * gas price clamped
\* to i128, together with its nonce change, also when a transaction with a
\* non-zero value has its own signer as target.
C40_SenderDebitKept ==
  (Executed /\ IsSome(results) /\ results[1].success) =>
    LET tx == block[1]
        sc == results[1].state_changes
    IN /\ tx.signer \in DOMAIN sc
       /\ sc[tx.signer].balance_change
            = Some(-TryIntoI128(SatMul(tx.gas_limit, tx.max_fee_per_gas)))
       /\ sc[tx.signer].nonce_change = Some(1)

====
